---- MODULE Spec2Model ----
(***************************************************************************)
(* Model of the crawl service: POST /api/crawl (registerRoutes), the node  *)
(* wrapper crawlWithPython, and the generated Python program (crawl_url,   *)
(* fallback_crawl) that it runs.                                           *)
(*                                                                         *)
(* Strings that the code inspects (URLs, href attributes, host names) are  *)
(* sequences of tokens.  The tokens are chosen so that every prefix or     *)
(* suffix test of the code falls on a token boundary: "http://", "/",      *)
(* "./", "#", "mailto:", "tel:", "javascript:", the dot "." of host names, *)
(* host labels and path segments.                                          *)
(***************************************************************************)
EXTENDS Integers, Sequences, FiniteSets, TLC

(* ------------------------------ bounds -------------------------------- *)
\* largest crawlDepth a request of the model carries
MaxDepth == 2
\* largest maxPages a request of the model carries
MaxPages == 3

(* ------------------- constants of crawlRequestSchema ------------------ *)
CrawlDepthMin == 1
CrawlDepthMax == 5
MaxPagesMin == 1
MaxPagesMax == 100
CrawlDepthDefault == 1
MaxPagesDefault == 1
TimeoutMin == 5
TimeoutMax == 120
TimeoutDefault == 30
ThresholdMin == 0
ThresholdMax == 1000
ThresholdDefault == 1

\* an optional request field is a sequence of length at most one;
\* the empty sequence is a field the request body does not carry
Absent == <<>>
Given(x) == <<x>>
\* Python: the name main_title is not bound (not in locals())
Unbound == "<unbound>"
\* a page without a <title> element
NoTitleElem == "<no title element>"
\* no URL (before the first dequeue)
NoUrl == <<>>

(* -------------------------- string helpers ---------------------------- *)
\* str.startswith(p) for a prefix p that is one token, or the prefix
\* 'http' of the token "http://"
StartsWith(s, p) ==
    /\ Len(s) >= 1
    /\ \/ s[1] = p
       \/ p = "http" /\ s[1] = "http://"

\* str.endswith(t)
EndsWith(s, t) ==
    /\ Len(s) >= Len(t)
    /\ SubSeq(s, Len(s) - Len(t) + 1, Len(s)) = t

\* x in list
InSeq(x, s) == \E i \in 1..Len(s) : s[i] = x

\* index of the first "/" token of s at or after position i (0 if none)
RECURSIVE FirstSlash(_, _)
FirstSlash(s, i) ==
    IF i > Len(s) THEN 0
    ELSE IF s[i] = "/" THEN i
    ELSE FirstSlash(s, i + 1)

\* urlparse(u).netloc: the tokens between "http://" and the next "/";
\* empty for a URL that has no "//" authority (javascript:, mailto:, ...)
Netloc(u) ==
    IF ~StartsWith(u, "http://") THEN <<>>
    ELSE LET k == FirstSlash(u, 2)
         IN  IF k = 0 THEN SubSeq(u, 2, Len(u)) ELSE SubSeq(u, 2, k - 1)

\* has the reference a scheme of its own ("x:")?
HasScheme(h) ==
    Len(h) >= 1 /\ h[1] \in {"http://", "javascript:", "mailto:", "tel:"}

\* urljoin(base, h) for the references of the model: an empty reference
\* is the base, a reference with a scheme stands for itself, "/p" replaces
\* the path, "./p" and "p" replace the last segment of the base path
\* (every path of the model has one segment, so the directory is "/")
UrlJoin(base, h) ==
    LET root == <<"http://">> \o Netloc(base) \o <<"/">>
    IN  IF h = <<>> THEN base
        ELSE IF HasScheme(h) THEN h
        ELSE IF ~StartsWith(base, "http://") THEN h
        ELSE IF h[1] = "/" THEN root \o Tail(h)
        ELSE IF h[1] = "./" THEN root \o Tail(h)
        ELSE IF h[1] = "#" THEN base \o h
        ELSE root \o h

(* ------------------------------ the web ------------------------------- *)
WWW == <<"www", ".", "ex", ".", "com">>
APEX == <<"ex", ".", "com">>
SUBH == <<"a", ".", "www", ".", "ex", ".", "com">>
BLOG == <<"blog", ".", "ex", ".", "com">>
EXTH == <<"other", ".", "org">>

Url(host, path) == <<"http://">> \o host \o <<"/">> \o path

SeedUrl == Url(WWW, <<>>)
\* a request url that z.string().url() accepts and on which Python's
\* urlparse raises ValueError: a "]" without "[" in the authority
BracketUrl == Url(<<"u", "]", "@">> \o WWW, <<>>)
\* a request url that z.string().url() rejects (no scheme)
BadUrl == WWW

Page(links, title, body) == [links |-> links, title |-> title, body |-> body]

\* a site of one host with cycles: self links, links back to the seed,
\* several references to one page, a chain seed -> a -> c -> d
SiteCycle ==
    (Url(WWW, <<>>) :> Page(<< <<"/", "a">>, <<"/", "b">>, <<"./", "a">>,
                               <<"/", "private">>, <<"/">>, <<>> >>,
                            "Home", <<"home">>))
    @@ (Url(WWW, <<"a">>) :> Page(<< <<"/">>, <<"a">>, <<"/", "b">>, <<"c">> >>,
                                  "A", <<"a">>))
    @@ (Url(WWW, <<"b">>) :> Page(<< <<"/", "a">>, <<"/", "c">> >>,
                                  NoTitleElem, <<>>))
    @@ (Url(WWW, <<"c">>) :> Page(<< <<"/", "d">>, <<"/">> >>, "C", <<"c">>))
    @@ (Url(WWW, <<"private">>) :> Page(<< >>, "P", <<"secret">>))

\* a site whose seed links to other hosts and carries the references the
\* extractor has to ignore
SiteHosts ==
    (Url(WWW, <<>>) :> Page(<< <<"#", "top">>, <<"mailto:", "x">>, <<"tel:", "1">>,
                               <<"javascript:", "v">>,
                               Url(APEX, <<>>), Url(SUBH, <<>>), Url(EXTH, <<>>),
                               <<"/", "a">> >>,
                            "Home", <<"home">>))
    @@ (Url(WWW, <<"a">>) :> Page(<< <<"#", "x">>, <<"/">> >>, "A", <<"a">>))
    @@ (Url(APEX, <<>>) :> Page(<< <<"/", "y">>, Url(BLOG, <<>>) >>, "Apex", <<"apex">>))
    @@ (Url(APEX, <<"y">>) :> Page(<< >>, "Y", <<"y">>))
    @@ (Url(SUBH, <<>>) :> Page(<< <<"mailto:", "y">> >>, "Sub", <<"sub">>))
    @@ (Url(BLOG, <<>>) :> Page(<< >>, "Blog", <<"blog">>))
    @@ (Url(EXTH, <<>>) :> Page(<< <<"/", "z">> >>, "Ext", <<>>))

Sites == {SiteCycle, SiteHosts}

(* ----------------------------- requests ------------------------------- *)
\* waitForSelector values: none, a selector no page matches, and a string
\* that is not a CSS selector (select() raises on it)
WaitSelectors == {"", ".ready", "["}
SelectRaises(sel) == sel = "["

PatternSets == { {}, {"private"} }

Bodies ==
    [ url : {SeedUrl, BadUrl, BracketUrl},
      crawlDepth : {Absent} \cup {Given(n) : n \in 0..MaxDepth},
      maxPages : {Absent} \cup {Given(n) : n \in 0..MaxPages},
      includeSubdomains : BOOLEAN,
      followExternalLinks : BOOLEAN,
      waitForSelector : WaitSelectors,
      excludePatterns : PatternSets,
      includePatterns : PatternSets,
      timeout : {Absent},
      wordCountThreshold : {Absent} ]

\* z.string().url()
ValidUrl(u) == HasScheme(u)

\* urlparse(u) raises ValueError("Invalid IPv6 URL"): one of "[" and "]"
\* occurs in the authority without the other
UrlparseRaises(u) ==
    LET n == Netloc(u)
    IN  (\E i \in 1..Len(n) : n[i] = "]") # (\E i \in 1..Len(n) : n[i] = "[")

\* ValidNumber without .max(hi)
ValidNumberNoMax(x, lo, hi) == IF x = Absent THEN TRUE ELSE x[1] >= lo

\* z.number().min(lo).max(hi).optional()
ValidNumber(x, lo, hi) == IF x = Absent THEN TRUE ELSE x[1] >= lo /\ x[1] <= hi

\* .default(d)
WithDefault(x, d) == IF x = Absent THEN d ELSE x[1]

\* crawlRequestSchema.parse succeeds
SchemaAccepts(b) ==
    /\ ValidUrl(b.url)
    /\ ValidNumber(b.crawlDepth, CrawlDepthMin, CrawlDepthMax)
    /\ ValidNumber(b.maxPages, MaxPagesMin, MaxPagesMax)
    /\ ValidNumber(b.timeout, TimeoutMin, TimeoutMax)
    /\ ValidNumber(b.wordCountThreshold, ThresholdMin, ThresholdMax)

\* the value crawlRequestSchema.parse returns
SchemaParse(b) ==
    [ b EXCEPT !.crawlDepth = WithDefault(@, CrawlDepthDefault),
               !.maxPages = WithDefault(@, MaxPagesDefault),
               !.timeout = WithDefault(@, TimeoutDefault),
               !.wordCountThreshold = WithDefault(@, ThresholdDefault) ]

\* JavaScript `x || d` on a number
OrDefault(x, d) == IF x = 0 THEN d ELSE x

\* the config dict crawl_url builds and hands to fallback_crawl
EngineConfig(p) ==
    [ crawl_depth |-> OrDefault(p.crawlDepth, 1),
      max_pages |-> OrDefault(p.maxPages, 1),
      include_subdomains |-> p.includeSubdomains,
      follow_external_links |-> p.followExternalLinks,
      timeout |-> OrDefault(p.timeout, 30),
      word_count_threshold |-> OrDefault(p.wordCountThreshold, 1) ]

(* --------------------------- link extractor --------------------------- *)
\* the domain filtering rules of fallback_crawl (should_include)
ShouldInclude(link_domain, base_domain, cfg) ==
    IF link_domain = base_domain THEN TRUE
    ELSE IF cfg.include_subdomains
            /\ (\/ EndsWith(link_domain, <<".">> \o base_domain)
                \/ EndsWith(base_domain, <<".">> \o link_domain)) THEN TRUE
    ELSE IF cfg.follow_external_links THEN TRUE
    ELSE FALSE

\* IgnoredHref without the mailto: test
IgnoredHrefNoMailto(href) ==
    StartsWith(href, "#") \/ StartsWith(href, "tel:")

\* the hrefs the loop skips before resolving them
IgnoredHref(href) ==
    StartsWith(href, "#") \/ StartsWith(href, "mailto:") \/ StartsWith(href, "tel:")

\* relative references are resolved against the page they stand on
ResolveHref(href, cur) ==
    IF StartsWith(href, "/") \/ StartsWith(href, "./") \/ ~StartsWith(href, "http")
    THEN UrlJoin(cur, href)
    ELSE href

\* Queued that never finds the URL in the frontier
QueuedNever(href, frontier) == FALSE

\* `href in urls_to_visit`
Queued(href, frontier) == InSeq(href, frontier)

\* `for link in soup.find_all('a', href=True)`: the frontier after the
\* links i.. of the page cur have been looked at, in document order
RECURSIVE ExtractLinks(_, _, _, _, _, _, _)
ExtractLinks(links, i, cur, base_domain, cfg, visited, frontier) ==
    IF i > Len(links) THEN frontier
    ELSE LET href == links[i]
             abs == ResolveHref(href, cur)
             take == /\ ~IgnoredHref(href)
                     /\ ShouldInclude(Netloc(abs), base_domain, cfg)
                     /\ abs \notin visited
                     /\ ~Queued(abs, frontier)
         IN  ExtractLinks(links, i + 1, cur, base_domain, cfg, visited,
                          IF take THEN Append(frontier, abs) ELSE frontier)

(* ------------------------------ content ------------------------------- *)
\* "\n\n--- Page {n}: {url} ---\n\n"
Marker(n, u) == [kind |-> "marker", n |-> n, url |-> u, text |-> <<>>]
\* page_markdown.strip() of the n-th crawled page
PageEntry(n, u, body) == [kind |-> "page", n |-> n, url |-> u, text |-> body]

\* an entry of all_content that is not the empty string
NonEmptyEntry(e) == e.kind = "marker" \/ e.text # <<>>

\* '\n\n'.join(filter(None, all_content)): the entries that remain
Combine(content) == SelectSeq(content, NonEmptyEntry)

\* the text of one entry of all_content, a sequence of tokens
EntryText(e) ==
    IF e.kind = "marker"
    THEN <<"\n", "\n", "---", " ", "Page", " ", ToString(e.n), ":", " ">>
         \o e.url \o <<" ", "---", "\n", "\n">>
    ELSE e.text

\* the string '\n\n'.join(entries)
RECURSIVE Join(_)
Join(entries) ==
    IF entries = <<>> THEN <<>>
    ELSE IF Len(entries) = 1 THEN EntryText(entries[1])
    ELSE EntryText(entries[1]) \o <<"\n", "\n">> \o Join(Tail(entries))

\* JavaScript \s
IsSpace(c) == c \in {" ", "\n", "\t"}

\* String.prototype.trim
RECURSIVE TrimStart(_)
TrimStart(str) ==
    IF str # <<>> /\ IsSpace(Head(str)) THEN TrimStart(Tail(str)) ELSE str

RECURSIVE TrimEnd(_)
TrimEnd(str) ==
    IF str # <<>> /\ IsSpace(str[Len(str)])
    THEN TrimEnd(SubSeq(str, 1, Len(str) - 1))
    ELSE str

Trim(str) == TrimEnd(TrimStart(str))

\* the k-th smallest number of the set S
Kth(S, k) == CHOOSE x \in S : Cardinality({y \in S : y < x}) = k - 1

\* the positions where a match of /\s+/ starts and where it ends
RunStarts(str) ==
    { i \in 1..Len(str) : IsSpace(str[i]) /\ (i = 1 \/ ~IsSpace(str[i - 1])) }
RunEnds(str) ==
    { i \in 1..Len(str) : IsSpace(str[i]) /\ (i = Len(str) \/ ~IsSpace(str[i + 1])) }

\* str.split(/\s+/): the pieces between the runs of white space; a run at
\* an end of the string leaves an empty piece there, and the empty string
\* gives one empty piece
SplitSpaces(str) ==
    LET starts == RunStarts(str)
        ends == RunEnds(str)
        n == Cardinality(starts) + 1
    IN  [ k \in 1..n |->
            SubSeq(str,
                   IF k = 1 THEN 1 ELSE Kth(ends, k - 1) + 1,
                   IF k = n THEN Len(str) ELSE Kth(starts, k) - 1) ]

\* result.markdown.length
CharacterCount(md) == Len(md)

\* WordCount without the test of the trimmed string
WordCountUnguarded(md) == Len(SplitSpaces(Trim(md)))

\* result.markdown.trim() ? result.markdown.trim().split(/\s+/).length : 0
WordCount(md) ==
    IF Trim(md) # <<>> THEN Len(SplitSpaces(Trim(md))) ELSE 0

\* str.split('\n'): the pieces between the newlines, empty ones included
RECURSIVE SplitLinesFrom(_, _)
SplitLinesFrom(str, piece) ==
    IF str = <<>> THEN <<piece>>
    ELSE IF Head(str) = "\n" THEN <<piece>> \o SplitLinesFrom(Tail(str), <<>>)
    ELSE SplitLinesFrom(Tail(str), Append(piece, Head(str)))

SplitLines(str) == SplitLinesFrom(str, <<>>)

\* '\n'.join(lines)
RECURSIVE JoinLines(_)
JoinLines(lines) ==
    IF lines = <<>> THEN <<>>
    ELSE IF Len(lines) = 1 THEN lines[1]
    ELSE lines[1] \o <<"\n">> \o JoinLines(Tail(lines))

NonEmptyPiece(piece) == piece # <<>>

\* len(line.split()): the words of the line
LineWords(line) == Len(SelectSeq(SplitSpaces(line), NonEmptyPiece))

\* KeepLine without the test for a heading
KeepLineNoHeading(line, word_threshold) ==
    \/ LineWords(line) >= word_threshold
    \/ Trim(line) = <<>>

\* the test under which the word count filter keeps a line
KeepLine(line, word_threshold) ==
    \/ LineWords(line) >= word_threshold
    \/ (line # <<>> /\ Head(line) = "#")
    \/ Trim(line) = <<>>

\* ContentFilter without the test of the threshold, keeping the lines of
\* more than word_threshold words
ContentFilterAlways(page_markdown, word_threshold) ==
    JoinLines(SelectSeq(SplitLines(page_markdown),
                        LAMBDA line : KeepLine(line, word_threshold + 1)))

\* the word count filtering of one page; word_threshold is
\* options.wordCountThreshold || 1
ContentFilter(page_markdown, word_threshold) ==
    IF word_threshold > 1
    THEN JoinLines(SelectSeq(SplitLines(page_markdown),
                             LAMBDA line : KeepLine(line, word_threshold)))
    ELSE page_markdown

\* RenderedMarkdowns of a rendering that goes on to a linked page
RenderedMarkdownsDeep(u) ==
    { <<PageEntry(1, u, <<"rendered">>), Marker(2, u \o <<"a">>),
        PageEntry(2, u \o <<"a">>, <<"rendered">>)>> }

\* what Crawl4AI can return as result.markdown
RenderedMarkdowns(u) ==
    { <<>>,
      <<PageEntry(1, u, <<"rendered">>)>>,
      <<PageEntry(1, u, <<" ", "\n", "\t">>)>>,
      <<PageEntry(1, u, <<"\n", "#", " ", "w", " ", " ", "w", "\n", "\n", "w", "\n">>)>> }

\* the crawledAt of the newest stored record
RECURSIVE Latest(_)
Latest(records) ==
    IF records = <<>> THEN 0
    ELSE LET m == Latest(Tail(records))
         IN  IF Head(records).crawledAt > m THEN Head(records).crawledAt ELSE m

\* title_elem.get_text().strip() if title_elem else "Untitled"
PageTitle(p) == IF p.title = NoTitleElem THEN "Untitled" ELSE p.title

\* JavaScript `result.title || 'Untitled'`
OrUntitled(t) == IF t = "" THEN "Untitled" ELSE t

(* ------------------------- stderr and messages ------------------------ *)
\* a line the Python program prints to stderr; json marks the line
\* json.dumps({"error": text})
Line(text) == [json |-> FALSE, text |-> text]
ErrorLine(text) == [json |-> TRUE, text |-> text]

\* what Crawl4AI's failure leaves on stderr: an exception (here the
\* ImportError of a missing package) or a result without success
Crawl4AIStderr(outcome) ==
    IF outcome = "raised"
    THEN << Line("Crawl4AI error: No module named 'crawl4ai'"),
            Line("Using fallback method...") >>
    ELSE << Line("Crawl4AI failed, trying fallback method..."),
            Line("Crawl4AI error: Crawl4AI failed"),
            Line("Using fallback method...") >>

\* stderr.includes('crawl4ai') (lower case)
IncludesCrawl4ai(err) ==
    \E i \in 1..Len(err) :
        err[i].text = "Crawl4AI error: No module named 'crawl4ai'"

\* str(e) of the exception fallback_crawl raises
FallbackError == "Multi-page crawl failed: Invalid IPv6 URL"

GenericMessage == "Failed to crawl the page"

\* ErrorMessage that prefers the line of the first strategy
ErrorMessageOfFirst(err) ==
    IF err = <<>> THEN GenericMessage
    ELSE IF IncludesCrawl4ai(err) THEN "Crawl4AI error: "
    ELSE GenericMessage

\* the message the close handler rejects with on a non-zero exit code:
\* the "error" of the last stderr line if that line is JSON; otherwise
\* what follows the last newline of stderr (nothing, every print ends
\* its line), prefixed when stderr mentions crawl4ai
ErrorMessage(err) ==
    IF err = <<>> THEN GenericMessage
    ELSE IF err[Len(err)].json
         THEN (IF err[Len(err)].text = "" THEN GenericMessage ELSE err[Len(err)].text)
    ELSE IF IncludesCrawl4ai(err) THEN "Crawl4AI error: " \o ""
    ELSE GenericMessage

(* ------------------------------- state -------------------------------- *)
VARIABLES
    pc,             \* position of the request: idle, strategy1, loop, fetch, exited, responded
    site,           \* the web: URL -> page the server holds
    policy,         \* validatedData of the request
    visited_urls,   \* fallback_crawl: visited_urls
    urls_to_visit,  \* fallback_crawl: urls_to_visit
    pages_crawled,  \* fallback_crawl: pages_crawled
    all_content,    \* fallback_crawl: all_content
    main_title,     \* fallback_crawl: main_title
    current_url,    \* fallback_crawl: current_url
    stdout,         \* the JSON line the Python program printed
    exitCode,       \* exit code of the Python program
    store,          \* crawl_results table
    response,       \* HTTP response of POST /api/crawl
    request,        \* req.body of the POST
    strategy1,      \* outcome of the Crawl4AI attempt: pending, success, raised, unsuccessful
    stderr,         \* the lines the Python program printed to stderr
    getResponse,    \* the answer to the last GET
    fltIn,          \* a page_markdown handed to the word count filter
    fltThreshold,   \* options.wordCountThreshold of that page's crawl
    fltOut,         \* the page_markdown the filter leaves
    fltDone,        \* the filter has run
    clock,          \* Date.now() of the server
    files,          \* the scripts in os.tmpdir(), by path
    inv,            \* the concurrent invocations of crawlWithPython
    aborted,        \* the caller of the POST has closed the connection
    pipe,           \* the per-page pipeline of fallback_crawl on one page
    twin,           \* two runs of fallback_crawl that differ in the content flags
    fetchLog,       \* history: every requests.get of the static pipeline, in order
    enqueueLog,     \* history: every URL put into urls_to_visit, in order
    layer           \* history: BFS layer at which a URL was first enqueued

vars == <<pc, site, policy, visited_urls, urls_to_visit, pages_crawled,
          all_content, main_title, current_url, stdout, exitCode, store,
          response, request, strategy1, stderr, getResponse, fltIn,
          fltThreshold, fltOut, fltDone, clock, files, inv, aborted, pipe,
          twin,
          fetchLog, enqueueLog, layer>>

\* the state of one POST /api/crawl and of the store
crawlVars == <<pc, site, policy, visited_urls, urls_to_visit, pages_crawled,
               all_content, main_title, current_url, stdout, exitCode, store,
               response, request, strategy1, stderr, fetchLog, enqueueLog, layer>>

\* the state outside POST /api/crawl
auxVars == <<getResponse, fltIn, fltThreshold, fltOut, fltDone, clock, files, inv,
             aborted, pipe, twin>>

\* the state of the concurrent invocations
concVars == <<clock, files, inv>>

\* the state of the word count filter of one page
filterVars == <<fltIn, fltThreshold, fltOut, fltDone>>

engineVars == <<visited_urls, urls_to_visit, pages_crawled, all_content,
                main_title, current_url, fetchLog, enqueueLog, layer>>

NoPolicy ==
    [ url |-> NoUrl, crawlDepth |-> CrawlDepthDefault, maxPages |-> MaxPagesDefault,
      includeSubdomains |-> FALSE, followExternalLinks |-> FALSE,
      waitForSelector |-> "", excludePatterns |-> {}, includePatterns |-> {},
      timeout |-> TimeoutDefault, wordCountThreshold |-> ThresholdDefault ]

NoOutput == [printed |-> FALSE, markdown |-> <<>>, title |-> ""]
NoResponse == [status |-> 0, id |-> 0, message |-> ""]
NoRequest == [url |-> NoUrl]
NoGet == [route |-> "", status |-> 0, query |-> <<>>, records |-> <<>>]

\* a stored row whose counts were computed by the route
Record(id, md, at) ==
    [id |-> id, url |-> SeedUrl, markdown |-> md, title |-> "Home",
     characterCount |-> CharacterCount(md), wordCount |-> WordCount(md),
     crawledAt |-> at]

\* what the table can hold when the server starts: nothing, two rows of
\* one instant, and more rows than the default limit
InitialStores ==
    { <<>>,
      << Record(1, <<"a">>, 1), Record(2, <<"b">>, 1) >>,
      << Record(1, <<"a">>, 1), Record(2, <<"b">>, 2), Record(3, <<>>, 2),
         Record(4, <<"d">>, 3), Record(5, <<"e">>, 4), Record(6, <<"f">>, 5) >> }

\* latest instant of the model's clock
MaxClock == 2

Invocations == {1, 2}

\* path.join(tempDir, `crawl_${Date.now()}.py`)
ScriptPath(now) == <<"crawl_", ToString(now), ".py">>

ScriptPaths == { ScriptPath(t) : t \in 0..MaxClock }

\* the pythonScript generated from the options of invocation i
Script(i) == i
\* no file at a path
NoFile == 0

NoInvocation == [pc |-> "idle", path |-> ScriptPath(0), ran |-> Absent, unlinked |-> FALSE,
                 exit |-> "none", outcome |-> "pending"]

\* Unlink that leaves the file in place
UnlinkNothing(fs, path) == fs

\* fs.unlinkSync(path) inside try/catch: the file is gone afterwards, and
\* a path without a file stays as it is
Unlink(fs, path) == [fs EXCEPT ![path] = NoFile]

\* the ways the python3 process of an invocation ends: exit code 0 with
\* a JSON result, exit code 0 with other output, a non-zero exit code,
\* the kill at the spawn timeout
Exits == {"code0", "unparsable", "nonzero", "timeout"}

\* the promise of crawlWithPython after the process ended
Settled(exit) == IF exit = "code0" THEN "resolved" ELSE "rejected"

\* the pipeline of no page
NoPipe == [stage |-> "idle", n |-> 0, url |-> NoUrl,
           flags |-> [onlyMainContent |-> TRUE, extractTables |-> TRUE,
                      extractImages |-> FALSE, removeImages |-> FALSE,
                      removeLinks |-> FALSE, wordCountThreshold |-> ThresholdDefault],
           doc |-> <<>>, located |-> <<>>, soup |-> <<>>, md |-> <<>>, out |-> <<>>,
           trace |-> <<>>]

\* a run of fallback_crawl before its loop: the frontier holds the seed
NoRun == [visited |-> {}, frontier |-> <<SeedUrl>>, pages |-> 0,
          fetched |-> <<>>, content |-> <<>>]

\* no pair of runs
NoTwin == [pc |-> "idle", cfg |-> EngineConfig(NoPolicy), flags |-> <<NoPipe.flags, NoPipe.flags>>,
           run |-> <<NoRun, NoRun>>]

ConcIdle ==
    /\ clock = 0
    /\ files = [p \in ScriptPaths |-> NoFile]
    /\ inv = [i \in Invocations |-> NoInvocation]

FilterIdle ==
    /\ fltIn = <<>>
    /\ fltThreshold = ThresholdDefault
    /\ fltOut = <<>>
    /\ fltDone = FALSE

CrawlIdle(stores) ==
    /\ pc = "idle"
    /\ site \in Sites
    /\ policy = NoPolicy
    /\ visited_urls = {}
    /\ urls_to_visit = <<>>
    /\ pages_crawled = 0
    /\ all_content = <<>>
    /\ main_title = Unbound
    /\ current_url = NoUrl
    /\ stdout = NoOutput
    /\ exitCode = "running"
    /\ store \in stores
    /\ response = NoResponse
    /\ request = NoRequest
    /\ strategy1 = "pending"
    /\ stderr = <<>>
    /\ fetchLog = <<>>
    /\ enqueueLog = <<>>
    /\ layer = <<>>

InitWith(stores) ==
    /\ CrawlIdle(stores)
    /\ getResponse = NoGet
    /\ FilterIdle
    /\ ConcIdle
    /\ aborted = FALSE
    /\ pipe = NoPipe
    /\ twin = NoTwin

Init == InitWith({<<>>})

(* ----------------------- POST /api/crawl: entry ----------------------- *)
\* crawlRequestSchema.parse throws: the catch answers 500
PostInvalid(bodies) ==
    /\ pc = "idle"
    /\ \E b \in bodies :
        /\ ~SchemaAccepts(b)
        /\ request' = b
        /\ response' = [status |-> 500, id |-> 0, message |-> "ZodError"]
        /\ pc' = "responded"
    /\ UNCHANGED auxVars
    /\ UNCHANGED <<site, policy, stdout, exitCode, store, strategy1, stderr>>
    /\ UNCHANGED engineVars

PostCrawlInvalid == PostInvalid(Bodies)

\* the request is valid: crawlWithPython writes the script and spawns it
PostValid(bodies) ==
    /\ pc = "idle"
    /\ \E b \in bodies :
        /\ SchemaAccepts(b)
        /\ request' = b
        /\ policy' = SchemaParse(b)
        /\ pc' = "strategy1"
    /\ UNCHANGED auxVars
    /\ UNCHANGED <<site, stdout, exitCode, store, response, strategy1, stderr>>
    /\ UNCHANGED engineVars

PostCrawlValid == PostValid(Bodies)

(* --------------------------- crawl_url -------------------------------- *)
\* Crawl4AISuccess without the return after the print
Crawl4AISuccessFallsThrough ==
    /\ pc = "strategy1"
    /\ \E md \in RenderedMarkdowns(policy.url),
          t \in {"Untitled", "Rendered"} :
        stdout' = [printed |-> TRUE, markdown |-> md, title |-> t]
    /\ strategy1' = "success"
    /\ visited_urls' = {}
    /\ all_content' = <<>>
    /\ urls_to_visit' = <<policy.url>>
    /\ pages_crawled' = 0
    /\ enqueueLog' = <<policy.url>>
    /\ layer' = (policy.url :> 1)
    /\ pc' = "loop"
    /\ UNCHANGED auxVars
    /\ UNCHANGED <<site, policy, store, response, request, stderr, exitCode,
                   main_title, current_url, fetchLog>>

\* Crawl4AI reports success: its result is printed, the program returns
Crawl4AISuccess ==
    /\ pc = "strategy1"
    /\ \E md \in RenderedMarkdowns(policy.url),
          t \in {"Untitled", "Rendered"} :
        stdout' = [printed |-> TRUE, markdown |-> md, title |-> t]
    /\ strategy1' = "success"
    /\ exitCode' = "0"
    /\ pc' = "exited"
    /\ UNCHANGED auxVars
    /\ UNCHANGED <<site, policy, store, response, request, stderr>>
    /\ UNCHANGED engineVars

\* Crawl4AI cannot be imported, throws, or reports failure:
\* fallback_crawl starts
Crawl4AIFail ==
    /\ pc = "strategy1"
    /\ ~UrlparseRaises(policy.url)
    /\ \E o \in {"raised", "unsuccessful"} :
        /\ strategy1' = o
        /\ stderr' = Crawl4AIStderr(o) \o <<Line("Starting multi-page crawl")>>
    /\ visited_urls' = {}
    /\ all_content' = <<>>
    /\ urls_to_visit' = <<policy.url>>
    /\ pages_crawled' = 0
    /\ enqueueLog' = <<policy.url>>
    /\ layer' = (policy.url :> 1)
    /\ pc' = "loop"
    /\ UNCHANGED auxVars
    /\ UNCHANGED <<site, policy, main_title, current_url, stdout, exitCode,
                   store, response, request, fetchLog>>

\* Crawl4AI fails and fallback_crawl raises before its loop (urlparse of
\* the seed): the outer handlers print the error as JSON and exit 1
FallbackRaises ==
    /\ pc = "strategy1"
    /\ UrlparseRaises(policy.url)
    /\ \E o \in {"raised", "unsuccessful"} :
        /\ strategy1' = o
        /\ stderr' = Crawl4AIStderr(o) \o <<ErrorLine(FallbackError)>>
    /\ visited_urls' = {}
    /\ all_content' = <<>>
    /\ urls_to_visit' = <<policy.url>>
    /\ enqueueLog' = <<policy.url>>
    /\ layer' = (policy.url :> 1)
    /\ exitCode' = "1"
    /\ pc' = "exited"
    /\ UNCHANGED auxVars
    /\ UNCHANGED <<site, policy, pages_crawled, main_title, current_url, stdout,
                   store, response, request, fetchLog>>

(* -------------------------- fallback_crawl ---------------------------- *)
Config == EngineConfig(policy)

\* base_domain taken from the page being crawled instead of the seed
base_domain_of_page == Netloc(current_url)

\* urlparse(url).netloc of the seed
base_domain == Netloc(policy.url)

\* LoopGuard with the page limit off by one
LoopGuardOffByOne == urls_to_visit # <<>> /\ pages_crawled <= Config.max_pages

LoopGuard == urls_to_visit # <<>> /\ pages_crawled < Config.max_pages

\* Dequeue that pops the last URL of the frontier
DequeueLast ==
    /\ pc = "loop"
    /\ LoopGuard
    /\ current_url' = urls_to_visit[Len(urls_to_visit)]
    /\ urls_to_visit' = SubSeq(urls_to_visit, 1, Len(urls_to_visit) - 1)
    /\ pc' = IF urls_to_visit[Len(urls_to_visit)] \in visited_urls THEN "loop" ELSE "fetch"
    /\ UNCHANGED auxVars
    /\ UNCHANGED <<site, policy, visited_urls, pages_crawled, all_content,
                   main_title, stdout, exitCode, store, response, request,
                   strategy1, stderr, fetchLog, enqueueLog, layer>>

\* top of the loop: pop(0), and `continue` if the URL is already visited
Dequeue ==
    /\ pc = "loop"
    /\ LoopGuard
    /\ current_url' = Head(urls_to_visit)
    /\ urls_to_visit' = Tail(urls_to_visit)
    /\ pc' = IF Head(urls_to_visit) \in visited_urls THEN "loop" ELSE "fetch"
    /\ UNCHANGED auxVars
    /\ UNCHANGED <<site, policy, visited_urls, pages_crawled, all_content,
                   main_title, stdout, exitCode, store, response, request,
                   strategy1, stderr, fetchLog, enqueueLog, layer>>

\* FetchFail that counts the failed URL as a crawled page
FetchFailCounted ==
    /\ pc = "fetch"
    /\ fetchLog' = Append(fetchLog, [url |-> current_url, ok |-> FALSE])
    /\ stderr' = stderr \o <<Line("Crawling page"), Line("Error crawling")>>
    /\ pages_crawled' = pages_crawled + 1
    /\ pc' = "loop"
    /\ UNCHANGED auxVars
    /\ UNCHANGED <<site, policy, visited_urls, urls_to_visit,
                   all_content, main_title, current_url, stdout, exitCode,
                   store, response, request, strategy1, enqueueLog, layer>>

\* FetchFail whose exception leaves the loop: the program exits with 1
FetchFailEscapes ==
    /\ pc = "fetch"
    /\ fetchLog' = Append(fetchLog, [url |-> current_url, ok |-> FALSE])
    /\ stderr' = stderr \o <<Line("Crawling page"), Line("Error crawling")>>
    /\ exitCode' = "1"
    /\ pc' = "exited"
    /\ UNCHANGED auxVars
    /\ UNCHANGED <<site, policy, visited_urls, urls_to_visit, pages_crawled,
                   all_content, main_title, current_url, stdout,
                   store, response, request, strategy1, enqueueLog, layer>>

\* requests.get or raise_for_status raises: logged, `continue`
FetchFail ==
    /\ pc = "fetch"
    /\ fetchLog' = Append(fetchLog, [url |-> current_url, ok |-> FALSE])
    /\ stderr' = stderr \o <<Line("Crawling page"), Line("Error crawling")>>
    /\ pc' = "loop"
    /\ UNCHANGED auxVars
    /\ UNCHANGED <<site, policy, visited_urls, urls_to_visit, pages_crawled,
                   all_content, main_title, current_url, stdout, exitCode,
                   store, response, request, strategy1, enqueueLog, layer>>

\* VisitedAfter that forgets to add the URL
VisitedAfterForgets(visited, u) == visited

\* visited_urls.add(u)
VisitedAfter(visited, u) == visited \cup {u}

\* Discover without the test of crawl_depth
DiscoverAtAnyDepth(n) ==
    IF n < Config.max_pages
    THEN ExtractLinks(site[current_url].links, 1, current_url, base_domain,
                      Config, VisitedAfter(visited_urls, current_url),
                      urls_to_visit)
    ELSE urls_to_visit

\* TitleAfter that takes the title of every page
TitleAfterEveryPage(n, page) == PageTitle(page)

\* main_title after the n-th crawled page: set `if pages_crawled == 1`
TitleAfter(n, page) == IF n = 1 THEN PageTitle(page) ELSE main_title

\* the frontier after link discovery on the page just fetched
Discover(n) ==
    IF n < Config.max_pages /\ Config.crawl_depth > 1
    THEN ExtractLinks(site[current_url].links, 1, current_url, base_domain,
                      Config, VisitedAfter(visited_urls, current_url),
                      urls_to_visit)
    ELSE urls_to_visit

\* the fetch answers 2xx: the rest of the loop body
FetchOk ==
    /\ pc = "fetch"
    /\ current_url \in DOMAIN site
    /\ LET n == pages_crawled + 1
           page == site[current_url]
           frontier == Discover(n)
           added == SubSeq(frontier, Len(urls_to_visit) + 1, Len(frontier))
           found == {added[i] : i \in 1..Len(added)} \ DOMAIN layer
       IN  /\ fetchLog' = Append(fetchLog, [url |-> current_url, ok |-> TRUE])
           /\ enqueueLog' = enqueueLog \o added
           /\ visited_urls' = VisitedAfter(visited_urls, current_url)
           /\ pages_crawled' = n
           /\ main_title' = TitleAfter(n, page)
           /\ urls_to_visit' = frontier
           /\ layer' = layer @@ [u \in found |-> layer[current_url] + 1]
           /\ all_content' =
                IF SelectRaises(policy.waitForSelector)
                THEN all_content
                ELSE (IF n > 1 THEN Append(all_content, Marker(n, current_url))
                               ELSE all_content)
                     \o <<PageEntry(n, current_url,
                                    Trim(ContentFilter(page.body,
                                                       Config.word_count_threshold)))>>
           /\ stderr' = stderr \o <<Line("Crawling page")>> \o
                IF SelectRaises(policy.waitForSelector)
                THEN <<Line("Error crawling")>>
                ELSE IF policy.waitForSelector # ""
                THEN <<Line("Warning: Selector not found")>>
                ELSE <<>>
    /\ pc' = "loop"
    /\ UNCHANGED auxVars
    /\ UNCHANGED <<site, policy, current_url, stdout, exitCode, store, response,
                   request, strategy1>>

\* the loop ends: the combined result is returned and printed
ReturnResult ==
    /\ pc = "loop"
    /\ ~LoopGuard
    /\ stdout' = [printed |-> TRUE,
                  markdown |-> Combine(all_content),
                  title |-> IF main_title = Unbound
                            THEN "Multi-page Crawl Results" ELSE main_title]
    /\ stderr' = Append(stderr, Line("Crawl completed"))
    /\ exitCode' = "0"
    /\ pc' = "exited"
    /\ UNCHANGED auxVars
    /\ UNCHANGED <<site, policy, store, response, request, strategy1>>
    /\ UNCHANGED engineVars

(* -------------------------- crawlWithPython --------------------------- *)
\* the spawn timeout kills the Python program: close fires with code null
TimeoutKill ==
    /\ pc \in {"strategy1", "loop", "fetch"}
    /\ exitCode' = "null"
    /\ pc' = "exited"
    /\ UNCHANGED auxVars
    /\ UNCHANGED <<site, policy, stdout, store, response, request, strategy1, stderr>>
    /\ UNCHANGED engineVars

\* close with code 0: the promise resolves, the route stores the result
\* and answers with the stored record
CloseOk ==
    /\ pc = "exited"
    /\ exitCode = "0"
    /\ \E at \in {Latest(store), Latest(store) + 1} :
        LET md == Join(stdout.markdown)
            rec == [id |-> Len(store) + 1,
                    url |-> policy.url,
                    markdown |-> md,
                    title |-> OrUntitled(stdout.title),
                    characterCount |-> CharacterCount(md),
                    wordCount |-> WordCount(md),
                    crawledAt |-> at]
        IN  /\ store' = Append(store, rec)
            /\ response' = [status |-> 200, id |-> rec.id, message |-> ""]
    /\ pc' = "responded"
    /\ UNCHANGED auxVars
    /\ UNCHANGED <<site, policy, stdout, exitCode, request, strategy1, stderr>>
    /\ UNCHANGED engineVars

\* CloseError that stores a record of the failed crawl
CloseErrorStores ==
    /\ pc = "exited"
    /\ exitCode # "0"
    /\ store' = Append(store, Record(Len(store) + 1, <<>>, Latest(store)))
    /\ response' = [status |-> 500, id |-> 0, message |-> ErrorMessage(stderr)]
    /\ pc' = "responded"
    /\ UNCHANGED auxVars
    /\ UNCHANGED <<site, policy, stdout, exitCode, request, strategy1, stderr>>
    /\ UNCHANGED engineVars

\* close with another code: the promise rejects, the catch answers 500
CloseError ==
    /\ pc = "exited"
    /\ exitCode # "0"
    /\ response' = [status |-> 500, id |-> 0, message |-> ErrorMessage(stderr)]
    /\ pc' = "responded"
    /\ UNCHANGED auxVars
    /\ UNCHANGED <<site, policy, stdout, exitCode, store, request, strategy1, stderr>>
    /\ UNCHANGED engineVars

Next ==
    \/ PostCrawlInvalid
    \/ PostCrawlValid
    \/ Crawl4AISuccess
    \/ Crawl4AIFail
    \/ FallbackRaises
    \/ Dequeue
    \/ FetchFail
    \/ FetchOk
    \/ ReturnResult
    \/ TimeoutKill
    \/ CloseOk
    \/ CloseError

Spec == Init /\ [][Next]_vars

(* ------------------------- GET /api/crawl-results --------------------- *)
\* the bodies of the POSTs of the specification of the three routes
ApiBodies ==
    { [ url |-> u, crawlDepth |-> Given(2), maxPages |-> mp,
        includeSubdomains |-> FALSE, followExternalLinks |-> FALSE,
        waitForSelector |-> "", excludePatterns |-> {}, includePatterns |-> {},
        timeout |-> Absent, wordCountThreshold |-> Absent ]
      : u \in {SeedUrl, BadUrl, BracketUrl}, mp \in {Given(2), Given(0)} }

\* the values of the query parameter limit; the empty one is an absent
\* parameter
AbsentQuery == <<>>
LimitQueries ==
    { AbsentQuery, <<"0">>, <<"1">>, <<"2">>, <<"7">>, <<"1", "0">>,
      <<"-", "1">>, <<"2", "x">>, <<"a">> }

Digits == {"0", "1", "2", "3", "4", "5", "6", "7", "8", "9"}
DigitValue(c) == CHOOSE n \in 0..9 : ToString(n) = c

\* the value of the longest prefix of digits, NaN (Absent) without one
RECURSIVE ParseDigits(_, _, _)
ParseDigits(str, seen, acc) ==
    IF str # <<>> /\ Head(str) \in Digits
    THEN ParseDigits(Tail(str), TRUE, 10 * acc + DigitValue(Head(str)))
    ELSE IF seen THEN Given(acc) ELSE Absent

\* parseInt(req.query.limit): an optional sign, then digits; what follows
\* the digits is ignored
ParseInt(str) ==
    IF str # <<>> /\ Head(str) = "-"
    THEN LET r == ParseDigits(Tail(str), FALSE, 0)
         IN  IF r = Absent THEN Absent ELSE Given(0 - r[1])
    ELSE ParseDigits(str, FALSE, 0)

DefaultLimit == 5

\* parseInt(...) || 5: NaN and 0 are falsy
OrDefaultLimit(n) ==
    IF n = Absent THEN DefaultLimit
    ELSE IF n[1] = 0 THEN DefaultLimit
    ELSE n[1]

\* the orders ORDER BY crawled_at DESC can return the rows of the index
\* set S in: rows of one instant come in any order
RECURSIVE OrderedDesc(_, _)
OrderedDesc(records, S) ==
    IF S = {} THEN {<<>>}
    ELSE UNION { { <<records[i]>> \o rest : rest \in OrderedDesc(records, S \ {i}) }
                 : i \in { j \in S : \A k \in S :
                                 records[j].crawledAt >= records[k].crawledAt } }

\* LIMIT n
Limit(rows, n) == SubSeq(rows, 1, IF n < Len(rows) THEN n ELSE Len(rows))

\* GET /api/crawl-results?limit=q; a negative LIMIT is an error of the
\* database, which the catch answers with 500
GetCrawlResults ==
    /\ \E q \in LimitQueries :
        LET limit == OrDefaultLimit(ParseInt(q))
        IN  IF limit < 0
            THEN getResponse' = [route |-> "list", status |-> 500, query |-> q,
                                 records |-> <<>>]
            ELSE \E rows \in OrderedDesc(store, DOMAIN store) :
                   getResponse' = [route |-> "list", status |-> 200, query |-> q,
                                   records |-> Limit(rows, limit)]
    /\ UNCHANGED crawlVars
    /\ UNCHANGED filterVars
    /\ UNCHANGED concVars
    /\ UNCHANGED <<aborted, pipe, twin>>

\* GET /api/crawl-results/:id
GetCrawlResult ==
    /\ \E id \in 0..(Len(store) + 1) :
        IF id \in DOMAIN store
        THEN getResponse' = [route |-> "item", status |-> 200,
                             query |-> <<ToString(id)>>, records |-> <<store[id]>>]
        ELSE getResponse' = [route |-> "item", status |-> 404,
                             query |-> <<ToString(id)>>, records |-> <<>>]
    /\ UNCHANGED crawlVars
    /\ UNCHANGED filterVars
    /\ UNCHANGED concVars
    /\ UNCHANGED <<aborted, pipe, twin>>

InitApi == InitWith(InitialStores)

NextApi ==
    \/ PostInvalid(ApiBodies)
    \/ PostValid(ApiBodies)
    \/ Crawl4AISuccess
    \/ Crawl4AIFail
    \/ FallbackRaises
    \/ Dequeue
    \/ FetchFail
    \/ FetchOk
    \/ ReturnResult
    \/ TimeoutKill
    \/ CloseOk
    \/ CloseError
    \/ GetCrawlResults
    \/ GetCrawlResult

SpecApi == InitApi /\ [][NextApi]_vars

(* ----------------------- validation of the request -------------------- *)
\* the request of the model with nothing but the url
BaseBody ==
    [ url |-> SeedUrl, crawlDepth |-> Absent, maxPages |-> Absent,
      includeSubdomains |-> FALSE, followExternalLinks |-> FALSE,
      waitForSelector |-> "", excludePatterns |-> {}, includePatterns |-> {},
      timeout |-> Absent, wordCountThreshold |-> Absent ]

\* the values on both sides of the two limits of a numeric field
Around(lo, hi) == {Given(lo - 1), Given(lo), Given(hi), Given(hi + 1)}

\* requests that carry one numeric field at or beyond a limit, a request
\* with every numeric field at its upper limit, and the other urls
WideBodies ==
    {BaseBody}
    \cup { [BaseBody EXCEPT !.crawlDepth = v] : v \in Around(CrawlDepthMin, CrawlDepthMax) }
    \cup { [BaseBody EXCEPT !.maxPages = v] : v \in Around(MaxPagesMin, MaxPagesMax) }
    \cup { [BaseBody EXCEPT !.timeout = v] : v \in Around(TimeoutMin, TimeoutMax) }
    \cup { [BaseBody EXCEPT !.wordCountThreshold = v] :
             v \in Around(ThresholdMin, ThresholdMax) }
    \cup { [BaseBody EXCEPT !.crawlDepth = Given(CrawlDepthMax),
                            !.maxPages = Given(MaxPagesMax),
                            !.timeout = Given(TimeoutMax),
                            !.wordCountThreshold = Given(ThresholdMax)] }
    \cup { [BaseBody EXCEPT !.url = u] : u \in {BadUrl, BracketUrl} }

NextValidate ==
    \/ PostInvalid(WideBodies)
    \/ PostValid(WideBodies)
    \/ Crawl4AISuccess
    \/ Crawl4AIFail
    \/ FallbackRaises
    \/ Dequeue
    \/ FetchFail
    \/ FetchOk
    \/ ReturnResult
    \/ TimeoutKill
    \/ CloseOk
    \/ CloseError

SpecValidate == Init /\ [][NextValidate]_vars

(* ---------------------------- cancellation ---------------------------- *)
\* the caller closes the connection of a POST whose crawl is running: the
\* route registers no listener for it and spawn is given no abort signal,
\* so nothing of the crawl changes
CallerAbort ==
    /\ pc \in {"strategy1", "loop", "fetch"}
    /\ ~aborted
    /\ aborted' = TRUE
    /\ UNCHANGED crawlVars
    /\ UNCHANGED <<getResponse, fltIn, fltThreshold, fltOut, fltDone, clock, files, inv,
                   pipe, twin>>

NextCancel ==
    \/ PostInvalid(ApiBodies)
    \/ PostValid(ApiBodies)
    \/ Crawl4AISuccess
    \/ Crawl4AIFail
    \/ FallbackRaises
    \/ Dequeue
    \/ FetchFail
    \/ FetchOk
    \/ ReturnResult
    \/ TimeoutKill
    \/ CloseOk
    \/ CloseError
    \/ CallerAbort

SpecCancel == Init /\ [][NextCancel]_vars

(* ------------------------- word count filtering ----------------------- *)
\* longest page_markdown handed to the filter
MaxLen == 4
\* largest wordCountThreshold handed to the filter
MaxThreshold == 3

\* the characters of a page_markdown: a word character, a blank, a
\* newline and the heading sign
Alphabet == {"w", " ", "\n", "#"}

\* a page_markdown of a heading, a one-word line, a six-word line, a
\* blank line and a last one-word line
FilterExample ==
    <<"#", " ", "Title", "\n",
      "short", "\n",
      "one", " ", "two", " ", "three", " ", "four", " ", "five", " ", "six", "\n",
      "\n",
      "last">>

Texts == UNION { [1..n -> Alphabet] : n \in 0..MaxLen } \cup {FilterExample}

InitFilter ==
    /\ CrawlIdle({<<>>})
    /\ getResponse = NoGet
    /\ fltIn \in Texts
    /\ fltThreshold \in 0..MaxThreshold \cup {5}
    /\ fltOut = <<>>
    /\ fltDone = FALSE
    /\ ConcIdle
    /\ aborted = FALSE
    /\ pipe = NoPipe
    /\ twin = NoTwin

\* the word count filtering of fallback_crawl on one page
ApplyFilter ==
    /\ ~fltDone
    /\ fltOut' = ContentFilter(fltIn, OrDefault(fltThreshold, 1))
    /\ fltDone' = TRUE
    /\ UNCHANGED <<fltIn, fltThreshold, getResponse, aborted, pipe, twin>>
    /\ UNCHANGED crawlVars
    /\ UNCHANGED concVars

SpecFilter == InitFilter /\ [][ApplyFilter]_vars

(* ------------------- the traversal loop under fairness ---------------- *)
\* requests for crawls of every depth and page budget of the model, with
\* subdomains admitted
LiveBodies ==
    { [ url |-> u, crawlDepth |-> Given(d), maxPages |-> Given(mp),
        includeSubdomains |-> TRUE, followExternalLinks |-> x,
        waitForSelector |-> "", excludePatterns |-> {}, includePatterns |-> {},
        timeout |-> Absent, wordCountThreshold |-> Absent ]
      : u \in {SeedUrl, BadUrl, BracketUrl}, d \in 1..MaxDepth, mp \in 1..MaxPages,
        x \in BOOLEAN }

\* one POST /api/crawl whose subprocess is not killed by the spawn timeout
NextLive ==
    \/ PostInvalid(LiveBodies)
    \/ PostValid(LiveBodies)
    \/ Crawl4AISuccess
    \/ Crawl4AIFail
    \/ FallbackRaises
    \/ Dequeue
    \/ FetchFail
    \/ FetchOk
    \/ ReturnResult
    \/ CloseOk
    \/ CloseError

\* the Python program keeps running: the loop takes its next URL, and
\* requests.get is called with a timeout, so a fetch does not stay pending
\* for ever. A pending fetch can always end by raising, so the second
\* condition is weak fairness of FetchFail: it rules out the behaviours
\* that stay in a fetch and forces no fetch to fail.
SpecLive ==
    /\ Init
    /\ [][NextLive]_vars
    /\ WF_vars(Dequeue)
    /\ WF_vars(FetchFail)

(* ------------------- the per-page pipeline of one page ---------------- *)
\* an element of the parsed page: a leaf with its text, or a box with
\* its child elements
Leaf(tag, text) ==
    [tag |-> tag, cls |-> "", text |-> text, kids |-> <<>>, href |-> <<>>]
Box(tag, cls, kids) ==
    [tag |-> tag, cls |-> cls, text |-> <<>>, kids |-> kids, href |-> <<>>]
\* <a href=...>
Anchor(href, text) == [Leaf("a", text) EXCEPT !.href = href]

Img == Leaf("img", <<"i.png">>)

\* the pages of the model: one with a navigation bar, a main element and
\* a footer line; one whose content class precedes its article element;
\* one without any main content element; one with a sidebar class and a
\* style element; one whose main content is found by class; an empty one
Docs ==
    { << Box("nav", "", <<Anchor(<<"/", "a">>, <<"menu">>), Img>>),
         Box("main", "", << Leaf("h1", <<"Title">>),
                            Leaf("p", <<"one", " ", "two", " ", "three">>),
                            Img,
                            Leaf("table", <<"cell">>),
                            Leaf("script", <<"js">>) >>),
         Leaf("p", <<"foot">>) >>,
      << Leaf("h1", <<"Head">>),
         Box("div", "content", <<Leaf("p", <<"in", " ", "div">>), Img>>),
         Box("article", "", <<Leaf("p", <<"story">>), Anchor(<<"/", "a">>, <<"more">>)>>) >>,
      << Leaf("p", <<"w">>), Img, Leaf("table", <<"cell">>), Anchor(<<"/", "a">>, <<"link">>) >>,
      << Box("div", "sidebar", <<Img, Leaf("p", <<"ad">>)>>),
         Leaf("p", <<"body", " ", "text">>),
         Img,
         Leaf("style", <<"css">>) >>,
      << Leaf("p", <<"intro">>),
         Box("div", "main-content", <<Leaf("p", <<"a", " ", "b">>), Img>>) >>,
      <<>> }

\* the content flags of a request after the schema defaults, and the
\* word count threshold
FlagSets ==
    [ onlyMainContent : BOOLEAN, extractTables : BOOLEAN, extractImages : BOOLEAN,
      removeImages : BOOLEAN, removeLinks : BOOLEAN,
      wordCountThreshold : {0, 1, MaxThreshold, ThresholdMax} ]

\* soup.find: the first element that satisfies P, if any
Find(soup, P(_)) ==
    LET hits == { i \in DOMAIN soup : P(soup[i]) }
    IN  IF hits = {} THEN <<>> ELSE <<soup[Kth(hits, 1)]>>

\* the content locator: with onlyMainContent the page is narrowed to the
\* first main, else the first article, else the first element of a content
\* class, if there is one (the pages of the model carry no id attribute)
ContentLocator(soup, flags) ==
    IF ~flags.onlyMainContent THEN soup
    ELSE LET main == Find(soup, LAMBDA e : e.tag = "main")
             article == Find(soup, LAMBDA e : e.tag = "article")
             byClass == Find(soup, LAMBDA e : e.cls \in {"content", "main-content",
                                                         "article-content", "post-content"})
             main_content == IF main # <<>> THEN main
                             ELSE IF article # <<>> THEN article
                             ELSE byClass
         IN  IF main_content # <<>> THEN main_content ELSE soup

\* element.decompose() for every element that satisfies Bad
Decompose(soup, Bad(_)) ==
    LET keep(e) == ~Bad(e)
        top == SelectSeq(soup, keep)
    IN  [ i \in DOMAIN top |-> [top[i] EXCEPT !.kids = SelectSeq(@, keep)] ]

\* RemovesImages with the test of extractImages alone
RemovesImagesSingleGate(flags) == ~flags.extractImages

\* `if not extractImages and removeImages`
RemovesImages(flags) == ~flags.extractImages /\ flags.removeImages

\* the sanitizer before its image step: scripts and styles, page chrome
\* with onlyMainContent, tables unless extractTables
SanitizeStructure(soup, flags) ==
    LET s1 == Decompose(soup, LAMBDA e : e.tag \in {"script", "style", "noscript"})
        s2 == IF flags.onlyMainContent
              THEN Decompose(
                       Decompose(s1, LAMBDA e : e.tag \in {"nav", "footer", "aside", "header"}),
                       LAMBDA e : e.cls \in {"nav", "navigation", "sidebar", "footer",
                                             "header", "menu"})
              ELSE s1
    IN  IF ~flags.extractTables THEN Decompose(s2, LAMBDA e : e.tag = "table") ELSE s2

\* the sanitizer: its structural steps, then the images under the double
\* condition
Sanitizer(soup, flags) ==
    LET s3 == SanitizeStructure(soup, flags)
    IN  IF RemovesImages(flags) THEN Decompose(s3, LAMBDA e : e.tag = "img") ELSE s3

\* the markdown html2text writes for a leaf element
LeafMarkdown(e, ignore_links, ignore_images) ==
    CASE e.tag = "h1" -> <<"#", " ">> \o e.text \o <<"\n", "\n">>
      [] e.tag = "p" -> e.text \o <<"\n", "\n">>
      [] e.tag = "img" -> IF ignore_images THEN <<>>
                          ELSE <<"![](">> \o e.text \o <<")">>
      [] e.tag = "a" -> IF ignore_links THEN e.text
                        ELSE <<"[">> \o e.text \o <<"](">> \o e.href \o <<")">>
      [] e.tag = "table" -> e.text \o <<" ", "|", "\n", "\n">>
      [] e.tag \in {"script", "style", "noscript"} -> <<>>
      [] OTHER -> e.text

RECURSIVE ElementsMarkdown(_, _, _, _)
ElementsMarkdown(es, i, ignore_links, ignore_images) ==
    IF i > Len(es) THEN <<>>
    ELSE (IF es[i].kids = <<>>
          THEN LeafMarkdown(es[i], ignore_links, ignore_images)
          ELSE ElementsMarkdown(es[i].kids, 1, ignore_links, ignore_images)
               \o <<"\n", "\n">>)
         \o ElementsMarkdown(es, i + 1, ignore_links, ignore_images)

\* Html2Text that never ignores images
Html2TextKeepsImages(soup, flags) ==
    ElementsMarkdown(soup, 1, flags.removeLinks, FALSE)

\* h.handle(str(page_soup)) with ignore_links = removeLinks and
\* ignore_images = removeImages
Html2Text(soup, flags) ==
    ElementsMarkdown(soup, 1, flags.removeLinks, flags.removeImages)

\* Appended that puts the marker into the page markdown before the filter
AppendedBeforeFilter(n, u, md, threshold) ==
    IF n > 1
    THEN <<Trim(ContentFilter(EntryText(Marker(n, u)) \o md, threshold))>>
    ELSE <<Trim(ContentFilter(md, threshold))>>

\* what the page appends to all_content: the marker `if pages_crawled > 1`
\* and the stripped page markdown
Appended(n, u, md, threshold) ==
    IF n > 1 THEN <<EntryText(Marker(n, u)), Trim(md)>> ELSE <<Trim(md)>>

InitPipeline ==
    /\ CrawlIdle({<<>>})
    /\ getResponse = NoGet
    /\ FilterIdle
    /\ ConcIdle
    /\ aborted = FALSE
    /\ \E doc \in Docs, flags \in FlagSets, n \in 1..2 :
          pipe = [NoPipe EXCEPT !.stage = "locate", !.n = n, !.url = SeedUrl,
                                !.flags = flags, !.doc = doc, !.soup = doc]
    /\ twin = NoTwin

\* the pipeline is at a stage, and nothing but the pipeline changes
AtStage(stage) ==
    /\ pipe.stage = stage
    /\ UNCHANGED crawlVars
    /\ UNCHANGED filterVars
    /\ UNCHANGED concVars
    /\ UNCHANGED <<getResponse, aborted, twin>>

Locate ==
    /\ AtStage("locate")
    /\ pipe' = [pipe EXCEPT !.stage = "sanitize", !.trace = Append(@, "locate"),
                            !.soup = ContentLocator(pipe.soup, pipe.flags),
                            !.located = ContentLocator(pipe.soup, pipe.flags)]

Sanitize ==
    /\ AtStage("sanitize")
    /\ pipe' = [pipe EXCEPT !.stage = "convert", !.trace = Append(@, "sanitize"),
                            !.soup = Sanitizer(pipe.soup, pipe.flags)]

Convert ==
    /\ AtStage("convert")
    /\ pipe' = [pipe EXCEPT !.stage = "filter", !.trace = Append(@, "convert"),
                            !.md = Html2Text(pipe.soup, pipe.flags)]

FilterPage ==
    /\ AtStage("filter")
    /\ pipe' = [pipe EXCEPT !.stage = "append", !.trace = Append(@, "filter"),
                            !.md = ContentFilter(pipe.md,
                                       OrDefault(pipe.flags.wordCountThreshold, 1))]

AppendPage ==
    /\ AtStage("append")
    /\ pipe' = [pipe EXCEPT !.stage = "done", !.trace = Append(@, "append"),
                            !.out = Appended(pipe.n, pipe.url, pipe.md,
                                       OrDefault(pipe.flags.wordCountThreshold, 1))]

NextPipeline == Locate \/ Sanitize \/ Convert \/ FilterPage \/ AppendPage

SpecPipeline == InitPipeline /\ [][NextPipeline]_vars

(* ------------- two runs that differ in the content flags -------------- *)
\* a site of parsed pages: the seed links from its navigation bar, its
\* main element and its footer, the linked pages link on and back, and a
\* linked subdomain has no page
TwinSite ==
    (SeedUrl :> << Box("nav", "", <<Anchor(<<"/", "n">>, <<"menu">>)>>),
                   Box("main", "", << Leaf("h1", <<"Title">>),
                                      Anchor(<<"/", "a">>, <<"to", " ", "a">>),
                                      Img,
                                      Leaf("p", <<"one", " ", "two", " ", "three">>) >>),
                   Box("footer", "", <<Anchor(<<"/", "f">>, <<"imprint">>)>>) >>)
    @@ (Url(WWW, <<"n">>) :> << Leaf("p", <<"nav", " ", "page">>),
                                Anchor(Url(SUBH, <<>>), <<"sub">>) >>)
    @@ (Url(WWW, <<"a">>) :> << Box("div", "sidebar", <<Anchor(<<"/", "b">>, <<"b">>)>>),
                                Leaf("table", <<"cell">>),
                                Anchor(<<"/">>, <<"home">>) >>)
    @@ (Url(WWW, <<"f">>) :> << Leaf("p", <<"f">>) >>)
    @@ (Url(WWW, <<"b">>) :> << Leaf("p", <<"b">>), Img >>)

\* the traversal settings of a pair of runs
TwinConfigs ==
    { [EngineConfig(NoPolicy) EXCEPT !.crawl_depth = d, !.max_pages = mp,
                                    !.include_subdomains = sub,
                                    !.follow_external_links = ext]
      : d \in 1..MaxDepth, mp \in 1..MaxPages, sub \in BOOLEAN, ext \in BOOLEAN }

\* soup.find_all('a', href=True): the hrefs of a page in document order
RECURSIVE Hrefs(_, _)
Hrefs(soup, i) ==
    IF i > Len(soup) THEN <<>>
    ELSE (IF soup[i].tag = "a" /\ soup[i].href # <<>> THEN <<soup[i].href>> ELSE <<>>)
         \o Hrefs(soup[i].kids, 1) \o Hrefs(soup, i + 1)

\* LinkSoup that takes the links from the page the content pipeline is
\* left with
LinkSoupOfContent(doc, flags) ==
    IF flags.removeLinks THEN <<>>
    ELSE Sanitizer(ContentLocator(doc, flags), flags)

\* the document the links are taken from: soup, the whole parsed response
LinkSoup(doc, flags) == doc

\* one iteration of the loop of fallback_crawl on a run, the fetch
\* answering 2xx or not
Iterate(r, cfg, flags, ok) ==
    LET cur == Head(r.frontier)
        rest == Tail(r.frontier)
    IN  IF cur \in r.visited THEN [r EXCEPT !.frontier = rest]
        ELSE IF ~ok \/ cur \notin DOMAIN TwinSite
        THEN [r EXCEPT !.frontier = rest, !.fetched = Append(@, cur)]
        ELSE LET doc == TwinSite[cur]
                 n == r.pages + 1
                 visited == VisitedAfter(r.visited, cur)
                 md == ContentFilter(
                           Html2Text(Sanitizer(ContentLocator(doc, flags), flags), flags),
                           OrDefault(flags.wordCountThreshold, 1))
             IN  [ visited |-> visited,
                   pages |-> n,
                   fetched |-> Append(r.fetched, cur),
                   frontier |->
                       IF n < cfg.max_pages /\ cfg.crawl_depth > 1
                       THEN ExtractLinks(Hrefs(LinkSoup(doc, flags), 1), 1, cur,
                                         Netloc(SeedUrl), cfg, visited, rest)
                       ELSE rest,
                   content |-> r.content \o Appended(n, cur, md, 1) ]

\* `while urls_to_visit and pages_crawled < max_pages` of a run
RunGuard(r, cfg) == r.frontier # <<>> /\ r.pages < cfg.max_pages

\* the first run has the default content flags, the second any
InitTwin ==
    /\ CrawlIdle({<<>>})
    /\ getResponse = NoGet
    /\ FilterIdle
    /\ ConcIdle
    /\ aborted = FALSE
    /\ pipe = NoPipe
    /\ \E cfg \in TwinConfigs, flags \in FlagSets :
          twin = [NoTwin EXCEPT !.pc = "loop", !.cfg = cfg,
                                !.flags = <<NoPipe.flags, flags>>]

\* both runs make their next iteration, their fetches having the same
\* outcome
TwinIterate ==
    /\ twin.pc = "loop"
    /\ \E i \in 1..2 : RunGuard(twin.run[i], twin.cfg)
    /\ \E ok \in BOOLEAN :
          twin' = [twin EXCEPT !.run =
                      [ i \in 1..2 |->
                          IF RunGuard(twin.run[i], twin.cfg)
                          THEN Iterate(twin.run[i], twin.cfg, twin.flags[i], ok)
                          ELSE twin.run[i] ]]
    /\ UNCHANGED crawlVars
    /\ UNCHANGED filterVars
    /\ UNCHANGED concVars
    /\ UNCHANGED <<getResponse, aborted, pipe>>

\* both loops have ended
TwinReturn ==
    /\ twin.pc = "loop"
    /\ \A i \in 1..2 : ~RunGuard(twin.run[i], twin.cfg)
    /\ twin' = [twin EXCEPT !.pc = "returned"]
    /\ UNCHANGED crawlVars
    /\ UNCHANGED filterVars
    /\ UNCHANGED concVars
    /\ UNCHANGED <<getResponse, aborted, pipe>>

NextTwin == TwinIterate \/ TwinReturn

SpecTwin == InitTwin /\ [][NextTwin]_vars

(* --------------------- concurrent crawlWithPython --------------------- *)
\* a millisecond passes
Tick ==
    /\ clock < MaxClock
    /\ clock' = clock + 1
    /\ UNCHANGED <<files, inv, getResponse, aborted, pipe, twin>>
    /\ UNCHANGED crawlVars
    /\ UNCHANGED filterVars

\* crawlWithPython up to spawn, one synchronous block: the script is
\* written to the path of the current millisecond, replacing a file
\* that is there, and python3 is started on that path
WriteAndSpawn(i) ==
    /\ inv[i].pc = "idle"
    /\ files' = [files EXCEPT ![ScriptPath(clock)] = Script(i)]
    /\ inv' = [inv EXCEPT ![i] = [@ EXCEPT !.pc = "spawned",
                                           !.path = ScriptPath(clock)]]
    /\ UNCHANGED <<clock, getResponse, aborted, pipe, twin>>
    /\ UNCHANGED crawlVars
    /\ UNCHANGED filterVars

\* the python3 process of invocation i opens its argument and runs what
\* the file holds at that moment; without a file it exits with an error
PythonStart(i) ==
    /\ inv[i].pc = "spawned"
    /\ inv' = [inv EXCEPT ![i] = [@ EXCEPT !.pc = "running",
                                           !.ran = Given(files[inv[i].path])]]
    /\ UNCHANGED <<clock, files, getResponse, aborted, pipe, twin>>
    /\ UNCHANGED crawlVars
    /\ UNCHANGED filterVars

\* the process of invocation i has exited: the close handler unlinks the
\* path (a failing unlink is caught) and settles the promise by the exit
\* code and the output alone; a process that found no script at its path
\* exits non-zero. After a failed start the handler runs as well and finds
\* the promise settled.
OnClose(i) ==
    /\ inv[i].pc \in {"running", "failed"}
    /\ files' = Unlink(files, inv[i].path)
    /\ \E exit \in (IF inv[i].pc = "failed" THEN {inv[i].exit}
                    ELSE IF inv[i].ran = Given(NoFile) THEN {"nonzero"}
                    ELSE Exits) :
          inv' = [inv EXCEPT ![i] = [@ EXCEPT !.pc = "closed",
                                              !.unlinked = files[inv[i].path] # NoFile,
                                              !.exit = exit,
                                              !.outcome = IF inv[i].pc = "failed"
                                                          THEN inv[i].outcome
                                                          ELSE Settled(exit)]]
    /\ UNCHANGED <<clock, getResponse, aborted, pipe, twin>>
    /\ UNCHANGED crawlVars
    /\ UNCHANGED filterVars

\* python3 of invocation i could not be started: the error handler unlinks
\* the path (a failing unlink is caught) and rejects the promise
OnError(i) ==
    /\ inv[i].pc = "spawned"
    /\ files' = Unlink(files, inv[i].path)
    /\ inv' = [inv EXCEPT ![i] = [@ EXCEPT !.pc = "failed",
                                           !.unlinked = files[inv[i].path] # NoFile,
                                           !.exit = "spawn error",
                                           !.outcome = "rejected"]]
    /\ UNCHANGED <<clock, getResponse, aborted, pipe, twin>>
    /\ UNCHANGED crawlVars
    /\ UNCHANGED filterVars

InitConc ==
    /\ CrawlIdle({<<>>})
    /\ getResponse = NoGet
    /\ FilterIdle
    /\ clock \in 0..MaxClock
    /\ files = [p \in ScriptPaths |-> NoFile]
    /\ inv = [i \in Invocations |-> NoInvocation]
    /\ aborted = FALSE
    /\ pipe = NoPipe
    /\ twin = NoTwin

NextConc ==
    \/ Tick
    \/ \E i \in Invocations : WriteAndSpawn(i)
    \/ \E i \in Invocations : PythonStart(i)
    \/ \E i \in Invocations : OnClose(i)
    \/ \E i \in Invocations : OnError(i)

SpecConc == InitConc /\ [][NextConc]_vars

(* ===================================================================== *)
(*                              Properties                               *)
(* ===================================================================== *)
Range(q) == {q[i] : i \in 1..Len(q)}

IsMarker(e) == e.kind = "marker"
IsPage(e) == e.kind = "page"

\* the ordinals of the page-boundary markers of a markdown, in order
MarkerOrdinals(md) ==
    LET ms == SelectSeq(md, IsMarker) IN [i \in 1..Len(ms) |-> ms[i].n]

\* the static pipeline has been started for this request
StaticRan == enqueueLog # <<>>

\* the static pipeline returned its result and the program exited
StaticReturned == StaticRan /\ stdout.printed

\* the first fetch of the static pipeline, the seed, failed
SeedFetchFailed ==
    /\ fetchLog # <<>>
    /\ fetchLog[1].url = policy.url
    /\ ~fetchLog[1].ok

\* host a is a proper subdomain of host b
SubdomainOf(a, b) ==
    /\ b # <<>>
    /\ Len(a) > Len(b) + 1
    /\ a[Len(a) - Len(b)] = "."
    /\ SubSeq(a, Len(a) - Len(b) + 1, Len(a)) = b

\* the admission rule of the Link Extractor for a link host, against the
\* host of the seed
Admits(host, seedHost, p) ==
    \/ host = seedHost
    \/ p.includeSubdomains /\ (SubdomainOf(host, seedHost) \/ SubdomainOf(seedHost, host))
    \/ p.followExternalLinks

\* the URLs that the links of page u admit under policy p
AdmissibleLinks(u, p) ==
    { ResolveHref(h, u) : h \in
        { g \in Range(site[u].links) :
            /\ ~IgnoredHref(g)
            /\ Admits(Netloc(ResolveHref(g, u)), Netloc(p.url), p) } }

\* a URL matches a pattern when the pattern occurs in it
Matches(u, pat) == pat \in Range(u)

(* --------------------------------------------------------------------- *)
\* C1: in every state of a crawl by the static pipeline pages_crawled is
\* at most the request's maxPages; with maxPages = 1 at most one page is
\* crawled and neither the aggregate nor the returned markdown holds a
\* page-boundary marker.
C1_PageLimit ==
    /\ pages_crawled <= policy.maxPages
    /\ policy.maxPages = 1 =>
         /\ pages_crawled <= 1
         /\ \A i \in DOMAIN all_content : ~IsMarker(all_content[i])
         /\ StaticRan => \A i \in DOMAIN stdout.markdown : ~IsMarker(stdout.markdown[i])

\* the limit cut a crawl short: the result was returned with maxPages
\* pages crawled while the frontier still held URLs
C1_Witness ==
    /\ StaticReturned
    /\ pages_crawled = policy.maxPages
    /\ urls_to_visit # <<>>

(* --------------------------------------------------------------------- *)
\* C2: within one crawl no URL is visited twice: no URL is fetched
\* successfully twice, every visited URL is counted once in pages_crawled,
\* and no URL contributes more than one content entry or marker.
C2_NoRevisit ==
    /\ \A i, j \in DOMAIN fetchLog :
         (fetchLog[i].ok /\ fetchLog[j].ok /\ fetchLog[i].url = fetchLog[j].url)
            => i = j
    /\ pages_crawled = Cardinality(visited_urls)
    /\ \A i, j \in DOMAIN all_content :
         (all_content[i].kind = all_content[j].kind
            /\ all_content[i].url = all_content[j].url) => i = j

\* a crawl of the cyclic site in which a URL failed, was linked again by a
\* later page, and was then visited
C2_Witness ==
    /\ StaticReturned
    /\ \E i, j \in DOMAIN fetchLog :
         /\ i < j
         /\ fetchLog[i].url = fetchLog[j].url
         /\ ~fetchLog[i].ok
         /\ fetchLog[j].ok
    /\ policy.url \in visited_urls
    /\ InSeq(<<"/">>, site[Url(WWW, <<"a">>)].links)
    /\ Url(WWW, <<"a">>) \in visited_urls

(* --------------------------------------------------------------------- *)
\* C3: if the fetch of the seed URL fails, the invocation ends in failure:
\* POST /api/crawl answers with an error and no record is written.
C3_SeedFailureIsError ==
    (pc = "responded" /\ SeedFetchFailed) =>
        (response.status = 500 /\ store = <<>>)

(* --------------------------------------------------------------------- *)
\* C4: a failed fetch of a non-seed URL is skipped: pages_crawled, the
\* visited set and the aggregate are unchanged, the program keeps running
\* at the top of the loop, and the loop goes on with the rest of the
\* frontier.
C4_NonSeedFailureSkipped ==
    [][ ( /\ pc = "fetch"
          /\ current_url # policy.url
          /\ Len(fetchLog') = Len(fetchLog) + 1
          /\ ~fetchLog'[Len(fetchLog')].ok )
        => ( /\ pages_crawled' = pages_crawled
             /\ visited_urls' = visited_urls
             /\ all_content' = all_content
             /\ urls_to_visit' = urls_to_visit
             /\ exitCode' = "running"
             /\ pc' = "loop"
             /\ urls_to_visit' # <<>> => LoopGuard' ) ]_vars

\* a non-seed fetch failed and a different page was crawled after it and
\* is part of the returned markdown
C4_Witness ==
    /\ StaticReturned
    /\ \E i, j \in DOMAIN fetchLog :
         /\ i < j
         /\ ~fetchLog[i].ok
         /\ fetchLog[i].url # policy.url
         /\ fetchLog[j].ok
         /\ fetchLog[j].url # fetchLog[i].url
         /\ \E k \in DOMAIN stdout.markdown :
              IsPage(stdout.markdown[k]) /\ stdout.markdown[k].url = fetchLog[j].url

(* --------------------------------------------------------------------- *)
\* C5: depth is enforced per BFS layer: no URL first discovered at a
\* layer above crawlDepth is ever enqueued (seed = layer 1).
C5_DepthPerLayer ==
    \A u \in DOMAIN layer : layer[u] <= policy.crawlDepth

(* --------------------------------------------------------------------- *)
\* C6: within one crawl every URL enters the frontier at most once and a
\* fetch is attempted for it at most once.
C6_EnqueuedAndFetchedOnce ==
    /\ \A i, j \in DOMAIN enqueueLog : enqueueLog[i] = enqueueLog[j] => i = j
    /\ \A i, j \in DOMAIN fetchLog : fetchLog[i].url = fetchLog[j].url => i = j

(* --------------------------------------------------------------------- *)
\* C7: when link discovery runs on a fetched page, the URLs appended to
\* the frontier are exactly the links whose host is admitted against the
\* seed's host (same host; or includeSubdomains and one host a subdomain
\* of the other; or followExternalLinks) and that are neither visited nor
\* already queued; with both flags false every URL ever enqueued has the
\* seed's host.
C7_HostClassification ==
    [][ ( /\ pc = "fetch"
          /\ pages_crawled' = pages_crawled + 1 )
        => ( /\ Range(SubSeq(urls_to_visit', Len(urls_to_visit) + 1, Len(urls_to_visit')))
                  = IF pages_crawled' < policy.maxPages /\ policy.crawlDepth > 1
                    THEN AdmissibleLinks(current_url, policy)
                            \ (visited_urls' \cup Range(urls_to_visit))
                    ELSE {}
             /\ (~policy.includeSubdomains /\ ~policy.followExternalLinks)
                  => \A u \in Range(enqueueLog') : Netloc(u) = Netloc(policy.url) ) ]_vars

\* a page of the parent host was crawled under includeSubdomains only:
\* its relative link (parent host) was admitted, its link to a sibling of
\* the seed host was not
C7_Witness ==
    /\ policy.includeSubdomains
    /\ ~policy.followExternalLinks
    /\ Url(APEX, <<>>) \in visited_urls
    /\ InSeq(Url(APEX, <<"y">>), enqueueLog)
    /\ InSeq(Url(BLOG, <<>>), site[Url(APEX, <<>>)].links)
    /\ ~InSeq(Url(BLOG, <<>>), enqueueLog)

(* --------------------------------------------------------------------- *)
\* C8: no mailto:, tel: or fragment-only link is ever enqueued or
\* fetched, whatever the flags are.
C8_NoIgnoredSchemes ==
    \A u \in Range(enqueueLog) \cup Range(urls_to_visit)
             \cup {fetchLog[i].url : i \in DOMAIN fetchLog} :
        /\ ~StartsWith(u, "mailto:")
        /\ ~StartsWith(u, "tel:")
        /\ "#" \notin Range(u)

\* link discovery ran, with followExternalLinks, on a page that carries
\* mailto:, tel: and fragment links next to a javascript: link, and the
\* javascript: link was enqueued
C8_Witness ==
    /\ policy.followExternalLinks
    /\ policy.url \in visited_urls
    /\ \E i \in DOMAIN site[policy.url].links :
         StartsWith(site[policy.url].links[i], "mailto:")
    /\ InSeq(<<"javascript:", "v">>, enqueueLog)

(* --------------------------------------------------------------------- *)
\* C9: a discovered URL is enqueued only if it matches no excludePatterns
\* entry and includePatterns is empty or one of its entries matches.
C9_PatternPolicy ==
    \A i \in DOMAIN enqueueLog :
        i > 1 =>
          /\ \A pat \in policy.excludePatterns : ~Matches(enqueueLog[i], pat)
          /\ \/ policy.includePatterns = {}
             \/ \E pat \in policy.includePatterns : Matches(enqueueLog[i], pat)

(* --------------------------------------------------------------------- *)
\* C10: when every fetch succeeded, crawlDepth >= 2 and the seed links to
\* at least maxPages-1 distinct admissible pages, the crawl ends with
\* pages_crawled = maxPages and the returned markdown holds exactly the
\* markers of the ordinals 2..maxPages, in increasing order.
C10_FullCrawlMarkers ==
    ( /\ StaticReturned
      /\ \A i \in DOMAIN fetchLog : fetchLog[i].ok
      /\ policy.crawlDepth >= 2
      /\ Cardinality(AdmissibleLinks(policy.url, policy) \ {policy.url})
            >= policy.maxPages - 1 )
    => ( /\ pages_crawled = policy.maxPages
         /\ MarkerOrdinals(stdout.markdown)
              = [i \in 1..(policy.maxPages - 1) |-> i + 1] )

(* --------------------------------------------------------------------- *)
\* the seed was fetched successfully by the static pipeline
SeedFetched ==
    \E i \in DOMAIN fetchLog : fetchLog[i].url = policy.url /\ fetchLog[i].ok

\* the record the POST of this behaviour stored
LastRecord == store[Len(store)]

\* C11: the static pipeline is started if and only if the rendering
\* strategy threw or reported failure, and never before the rendering
\* strategy was tried; when the rendering strategy reports success the
\* static pipeline fetches nothing and the stored result is the rendering
\* strategy's result.
C11_StrategyOrder ==
    /\ StaticRan <=> strategy1 \in {"raised", "unsuccessful"}
    /\ pc \in {"idle", "strategy1"} => ~StaticRan /\ strategy1 = "pending"
    /\ strategy1 = "success" =>
          /\ fetchLog = <<>> /\ all_content = <<>> /\ pages_crawled = 0
          /\ pc \in {"exited", "responded"}
          /\ pc = "responded" =>
                /\ response.status = 200
                /\ LastRecord.id = response.id
                /\ LastRecord.markdown = Join(stdout.markdown)
                /\ LastRecord.title = OrUntitled(stdout.title)
                /\ stdout.printed

\* the rendering strategy succeeded with content and the POST answered
C11_Witness ==
    /\ pc = "responded"
    /\ strategy1 = "success"
    /\ stdout.markdown # <<>>
    /\ response.status = 200

\* the rendering strategy reported failure and the static pipeline fetched
C11_WitnessFallThrough ==
    /\ strategy1 = "unsuccessful"
    /\ fetchLog # <<>>

C13_SeedSuccessIsResult ==
    (pc = "responded" /\ SeedFetched) =>
        /\ response.status = 200
        /\ stdout.markdown = Combine(all_content)

(* --------------------------------------------------------------------- *)
\* C15: when the timeout fires while URLs remain in the frontier and pages
\* were completed, the POST answers 200 with the pages completed so far.
C15_TimeoutReturnsPartial ==
    ( /\ pc = "responded"
      /\ exitCode = "null"
      /\ urls_to_visit # <<>>
      /\ all_content # <<>> ) =>
        /\ response.status = 200
        /\ store # <<>>

(* --------------------------------------------------------------------- *)
\* the number of maximal runs of tokens that are not white space
Tokens(str) ==
    Cardinality({ i \in 1..Len(str) :
                    ~IsSpace(str[i]) /\ (i = 1 \/ IsSpace(str[i - 1])) })

\* C14: every stored record has characterCount equal to the length of its
\* markdown and wordCount equal to the number of white-space delimited
\* tokens of its markdown (0 when it is empty or all white space), and the
\* markdown of the record a POST stored is the combined markdown the
\* engine printed.
C14_StoredCounts ==
    /\ \A i \in DOMAIN store :
          /\ store[i].characterCount = Len(store[i].markdown)
          /\ store[i].wordCount = Tokens(store[i].markdown)
          /\ (\A k \in DOMAIN store[i].markdown : IsSpace(store[i].markdown[k]))
                => store[i].wordCount = 0
    /\ (pc = "responded" /\ response.status = 200) =>
          LastRecord.markdown = Join(stdout.markdown)

\* a stored markdown of several words with white space around them
C14_Witness ==
    /\ pc = "responded"
    /\ response.status = 200
    /\ LastRecord.wordCount >= 3
    /\ IsSpace(LastRecord.markdown[1])
    /\ LastRecord.characterCount > LastRecord.wordCount

\* a stored markdown of white space only
C14_WitnessBlank ==
    /\ pc = "responded"
    /\ response.status = 200
    /\ LastRecord.markdown # <<>>
    /\ LastRecord.wordCount = 0

\* a stored markdown of several pages with a boundary marker
C14_WitnessPages ==
    /\ pc = "responded"
    /\ response.status = 200
    /\ \E i \in DOMAIN stdout.markdown : IsMarker(stdout.markdown[i])
    /\ LastRecord.wordCount > 4

(* --------------------------------------------------------------------- *)
\* C17: a step changes the store only by appending one record, and only
\* the step in which POST /api/crawl answers 200; a step in which the POST
\* answers 500 carries a message and leaves the store unchanged; the GETs
\* leave the store unchanged.
C17_AppendOnly ==
    [][ /\ \/ store' = store
           \/ /\ Len(store') = Len(store) + 1
              /\ SubSeq(store', 1, Len(store)) = store
              /\ response.status = 0
              /\ response'.status = 200
        /\ (response.status = 0 /\ response'.status = 500) =>
              /\ store' = store
              /\ response'.message # ""
        /\ getResponse' # getResponse => store' = store ]_vars

\* a POST failed in the engine on a non-empty store, and a GET answered
C17_Witness ==
    /\ response.status = 500
    /\ exitCode # "running"
    /\ store # <<>>
    /\ getResponse.status = 200

\* a POST appended to a non-empty store
C17_WitnessAppend ==
    /\ response.status = 200
    /\ Len(store) = 3

(* --------------------------------------------------------------------- *)
\* the number a limit parameter made of digits supplies
SuppliedLimit(q) ==
    IF q = AbsentQuery THEN 5 ELSE ParseInt(q)[1]

\* rows is ordered from most to least recent
Descending(rows) ==
    \A i, j \in DOMAIN rows : i < j => rows[i].crawledAt >= rows[j].crawledAt

\* the answer g to a list request made of digits is right for the table st
ListAnswerOk(g, st) ==
    LET n == SuppliedLimit(g.query)
        rows == g.records
    IN  /\ g.status = 200
        /\ Len(rows) = (IF n < Len(st) THEN n ELSE Len(st))
        /\ Descending(rows)
        /\ \A i \in DOMAIN rows : \E k \in DOMAIN st : st[k] = rows[i]
        /\ \A k \in DOMAIN st :
              (\A i \in DOMAIN rows : rows[i] # st[k]) =>
                 \A i \in DOMAIN rows : rows[i].crawledAt >= st[k].crawledAt

AllDigits(q) == \A i \in DOMAIN q : q[i] \in Digits

\* C19: GET /api/crawl-results with a limit of N (5 when absent) answers
\* with min(N, number of stored records) records, ordered from most to
\* least recent, none of them older than a record left out.
C19_LimitRespected ==
    [][ ( /\ getResponse' # getResponse
          /\ getResponse'.route = "list"
          /\ AllDigits(getResponse'.query) )
        => ListAnswerOk(getResponse', store) ]_vars

(* --------------------------------------------------------------------- *)
\* the POST has handed a policy to the engine
EngineStarted == pc \in {"strategy1", "loop", "fetch", "exited"} \/ exitCode # "running"

\* the value of a numeric request field, d when the request has none
FieldOr(x, d) == IF x = Absent THEN d ELSE x[1]

\* C18: the engine is never started for a request that fails validation,
\* and the policy of a started engine has crawlDepth in 1..5, maxPages in
\* 1..100, timeout in 5..120 and wordCountThreshold in 0..1000, each the
\* value of the request or, when the request has none, the default 1, 1,
\* 30 and 1.
C18_ValidatedPolicy ==
    /\ (request # NoRequest /\ policy = NoPolicy) =>
          /\ ~EngineStarted
          /\ strategy1 = "pending" /\ ~StaticRan /\ fetchLog = <<>>
          /\ response.status = 500
    /\ policy # NoPolicy =>
          /\ policy.crawlDepth \in 1..5
          /\ policy.maxPages \in 1..100
          /\ policy.timeout \in 5..120
          /\ policy.wordCountThreshold \in 0..1000
          /\ policy.crawlDepth = FieldOr(request.crawlDepth, 1)
          /\ policy.maxPages = FieldOr(request.maxPages, 1)
          /\ policy.timeout = FieldOr(request.timeout, 30)
          /\ policy.wordCountThreshold = FieldOr(request.wordCountThreshold, 1)
          /\ Config.crawl_depth \in 1..5
          /\ Config.max_pages \in 1..100
          /\ Config.timeout \in 5..120
          /\ Config.word_count_threshold \in 0..1000
    /\ EngineStarted => policy # NoPolicy

\* a request with every numeric field at its upper limit was crawled
C18_Witness ==
    /\ pc = "responded"
    /\ response.status = 200
    /\ policy.crawlDepth = 5 /\ policy.maxPages = 100
    /\ policy.timeout = 120 /\ policy.wordCountThreshold = 1000
    /\ pages_crawled > 1

\* a request one beyond a limit was answered without the engine
C18_WitnessRejected ==
    /\ pc = "responded"
    /\ request # NoRequest
    /\ request.url = SeedUrl
    /\ request.timeout = Given(121)
    /\ policy = NoPolicy

\* a request without numeric fields reached the engine with the defaults
C18_WitnessDefaults ==
    /\ EngineStarted
    /\ request.timeout = Absent /\ request.wordCountThreshold = Absent
    /\ policy.timeout = 30 /\ policy.wordCountThreshold = 1

(* --------------------------------------------------------------------- *)
\* C20: the word count filter leaves every page_markdown unchanged when
\* the threshold is 0 or 1.
C20_FilterNoOp ==
    (fltDone /\ fltThreshold <= 1) => fltOut = fltIn

\* the filter ran at threshold 1 on lines of one word and blank lines
C20_Witness ==
    /\ fltDone
    /\ fltThreshold = 1
    /\ fltIn = <<"w", "\n", "\n", " ">>

\* the filter ran at threshold 0
C20_WitnessZero ==
    /\ fltDone
    /\ fltThreshold = 0
    /\ fltIn = <<" ", "w", "\n", "w">>

\* the filter removed a line at a threshold above 1
C20_WitnessFilters ==
    /\ fltDone
    /\ fltThreshold = 2
    /\ fltIn = <<"w", "\n", "#", "w">>
    /\ fltOut = <<"#", "w">>

(* --------------------------------------------------------------------- *)
\* C16: in every interleaving of two invocations, the process of each
\* runs the script generated from its own options, and between the
\* spawn and the close of an invocation the file at its path is its own
\* script.
C16_NoInterference ==
    \A i \in Invocations :
        /\ inv[i].ran \in {Absent, Given(Script(i))}
        /\ inv[i].pc \in {"spawned", "running"} => files[inv[i].path] = Script(i)

(* --------------------------------------------------------------------- *)
\* a line of white space only
BlankLine(line) == \A k \in DOMAIN line : IsSpace(line[k])

\* a line that starts with the heading sign
HeadingLine(line) == Len(line) > 0 /\ line[1] = "#"

\* C21: for every threshold above 1 the filter output is the input lines
\* that are blank, start with '#' or have at least threshold words, in
\* their order and unaltered, joined by newlines; no other line is kept.
C21_FilterKeepsExactly ==
    (fltDone /\ fltThreshold > 1) =>
        LET lines == SplitLines(fltIn)
            keeps == { i \in DOMAIN lines :
                         \/ BlankLine(lines[i])
                         \/ HeadingLine(lines[i])
                         \/ Tokens(lines[i]) >= fltThreshold }
            kept == [ k \in 1..Cardinality(keeps) |-> lines[Kth(keeps, k)] ]
        IN  fltOut = JoinLines(kept)

\* the filter ran at threshold 5 on the example: the heading, the
\* six-word line and the blank line remain, 'short' and 'last' are gone
C21_Witness ==
    /\ fltDone
    /\ fltThreshold = 5
    /\ fltIn = FilterExample
    /\ fltOut = <<"#", " ", "Title", "\n",
                  "one", " ", "two", " ", "three", " ", "four", " ", "five", " ", "six",
                  "\n">>

(* --------------------------------------------------------------------- *)
\* C22: once the caller has aborted, no further URL is taken from the
\* frontier to be fetched.
C22_AbortStopsDequeue ==
    [][ aborted => ~(pc = "loop" /\ pc' = "fetch") ]_vars

(* --------------------------------------------------------------------- *)
\* C23: with crawlDepth 1 the static pipeline enqueues nothing but the
\* seed, attempts no fetch but one of the seed, and counts at most one
\* page; a crawl that returned attempted exactly that one fetch.
C23_DepthOneFetchesSeedOnly ==
    (StaticRan /\ policy.crawlDepth = 1) =>
        /\ enqueueLog = <<policy.url>>
        /\ Len(fetchLog) <= 1
        /\ \A i \in DOMAIN fetchLog : fetchLog[i].url = policy.url
        /\ pages_crawled <= 1
        /\ StaticReturned => Len(fetchLog) = 1

\* a crawl of depth 1 with room for more pages returned after fetching a
\* seed that carries links
C23_Witness ==
    /\ StaticReturned
    /\ policy.crawlDepth = 1
    /\ policy.maxPages >= 2
    /\ fetchLog # <<>>
    /\ fetchLog[1].ok
    /\ site[policy.url].links # <<>>

(* --------------------------------------------------------------------- *)
\* the URLs of the fetches attempted, in order
FetchedUrls == [i \in DOMAIN fetchLog |-> fetchLog[i].url]

\* the positions of the successful fetches
OkFetches == { i \in DOMAIN fetchLog : fetchLog[i].ok }

\* the page entries of a content, in order
PageEntries(content) == SelectSeq(content, IsPage)

\* C25: fetches are attempted in the order of enqueueing (the fetched URLs
\* are a prefix of the enqueue history and the frontier is the rest of
\* it), page ordinals follow the order of the successful fetches, and the
\* content lists the pages in increasing ordinal.
C25_Fifo ==
    StaticRan =>
        /\ Len(fetchLog) <= Len(enqueueLog)
        /\ FetchedUrls = SubSeq(enqueueLog, 1, Len(fetchLog))
        /\ pc = "loop" =>
              urls_to_visit = SubSeq(enqueueLog, Len(fetchLog) + 1, Len(enqueueLog))
        /\ pc = "fetch" =>
              /\ current_url = enqueueLog[Len(fetchLog) + 1]
              /\ urls_to_visit = SubSeq(enqueueLog, Len(fetchLog) + 2, Len(enqueueLog))
        /\ LET ps == PageEntries(all_content)
           IN  /\ \A i, j \in DOMAIN ps : i < j => ps[i].n < ps[j].n
               /\ \A i \in DOMAIN ps :
                     /\ ps[i].n <= Cardinality(OkFetches)
                     /\ ps[i].url = fetchLog[Kth(OkFetches, ps[i].n)].url
        /\ stdout.printed =>
              PageEntries(stdout.markdown) = SelectSeq(PageEntries(all_content), NonEmptyEntry)

\* three pages were fetched in the order they were enqueued while later
\* URLs were waiting
C25_Witness ==
    /\ pc = "loop"
    /\ Cardinality(OkFetches) >= 2
    /\ Len(fetchLog) >= 3
    /\ Len(PageEntries(all_content)) >= 2
    /\ Len(urls_to_visit) >= 2

(* --------------------------------------------------------------------- *)
\* the title the static pipeline has to report
ExpectedTitle ==
    IF OkFetches = {} THEN "Multi-page Crawl Results"
    ELSE PageTitle(site[fetchLog[Kth(OkFetches, 1)].url])

\* C26: main_title is unset until a page is fetched successfully and is
\* from then on the title of the first such page; the returned title is
\* that title, or the placeholder when no page was fetched successfully.
C26_TitleFromFirstPage ==
    StaticRan =>
        /\ main_title = (IF OkFetches = {} THEN Unbound ELSE ExpectedTitle)
        /\ stdout.printed => stdout.title = ExpectedTitle
        /\ (pc = "responded" /\ response.status = 200) =>
              LastRecord.title = ExpectedTitle

\* two pages with different titles were fetched and the crawl returned
C26_Witness ==
    /\ StaticReturned
    /\ Cardinality(OkFetches) >= 2
    /\ PageTitle(site[fetchLog[Kth(OkFetches, 2)].url]) # stdout.title

\* no page was fetched successfully and the crawl returned
C26_WitnessNoPage ==
    /\ StaticReturned
    /\ OkFetches = {}
    /\ stdout.title = "Multi-page Crawl Results"

(* --------------------------------------------------------------------- *)
\* C30: while the static pipeline runs, the frontier holds no URL twice
\* and no visited URL, so the URL at its head is never a visited one.
C30_FrontierDistinct ==
    (StaticRan /\ pc \in {"loop", "fetch"}) =>
        /\ \A i, j \in DOMAIN urls_to_visit :
              i # j => urls_to_visit[i] # urls_to_visit[j]
        /\ \A i \in DOMAIN urls_to_visit : urls_to_visit[i] \notin visited_urls
        /\ pc = "fetch" => current_url \notin visited_urls

\* a page that links to visited and to queued URLs was processed
C30_Witness ==
    /\ pc = "loop"
    /\ Len(urls_to_visit) >= 2
    /\ Cardinality(visited_urls) >= 2
    /\ \E i \in OkFetches :
          \E k \in DOMAIN site[fetchLog[i].url].links :
              ResolveHref(site[fetchLog[i].url].links[k], fetchLog[i].url) \in visited_urls

(* --------------------------------------------------------------------- *)
\* the image elements of a soup, at the top and inside boxes
RECURSIVE Images(_, _)
Images(soup, i) ==
    IF i > Len(soup) THEN 0
    ELSE (IF soup[i].tag = "img" THEN 1 ELSE 0)
         + Images(soup[i].kids, 1) + Images(soup, i + 1)

\* C24: the sanitizer leaves no image element when extractImages is false
\* and removeImages is true; under the three other combinations it removes
\* no image element: every image that is outside the elements removed for
\* another reason is still there.
C24_ImagesDualGate ==
    pipe.stage \in {"convert", "filter", "append", "done"} =>
        Images(pipe.soup, 1) =
            IF ~pipe.flags.extractImages /\ pipe.flags.removeImages
            THEN 0
            ELSE Images(SanitizeStructure(pipe.located, pipe.flags), 1)

\* the sanitizer ran under the double condition on a page with an image
\* in its content and left none
C24_Witness ==
    /\ pipe.stage = "convert"
    /\ ~pipe.flags.extractImages
    /\ pipe.flags.removeImages
    /\ Images(SanitizeStructure(pipe.located, pipe.flags), 1) > 0
    /\ Images(pipe.soup, 1) = 0

\* the sanitizer ran with both flags false and with both flags true on a
\* page with an image in its content and kept it
C24_WitnessKept ==
    /\ pipe.stage = "convert"
    /\ pipe.flags.extractImages = pipe.flags.removeImages
    /\ Images(pipe.soup, 1) > 0

(* --------------------------------------------------------------------- *)
\* C27: the stages of a page run in the order locator, sanitizer,
\* converter, filter; the page markdown is the filter applied to the
\* converter applied to the sanitizer applied to the locator; and the
\* marker of a page after the first is appended whole, in front of the
\* page markdown, whatever the threshold.
C27_StagesThenMarker ==
    /\ \E k \in 0..5 :
          pipe.trace = SubSeq(<<"locate", "sanitize", "convert", "filter", "append">>, 1, k)
    /\ pipe.stage = "done" =>
          LET md == ContentFilter(
                        Html2Text(Sanitizer(ContentLocator(pipe.doc, pipe.flags),
                                            pipe.flags), pipe.flags),
                        OrDefault(pipe.flags.wordCountThreshold, 1))
          IN  /\ pipe.md = md
              /\ pipe.out[Len(pipe.out)] = Trim(pipe.md)
              /\ pipe.n > 1 =>
                    /\ Len(pipe.out) = 2
                    /\ pipe.out[1] = <<"\n", "\n", "---", " ", "Page", " ",
                                       ToString(pipe.n), ":", " ">>
                                     \o pipe.url \o <<" ", "---", "\n", "\n">>
              /\ pipe.n = 1 => Len(pipe.out) = 1

\* the second page went through the pipeline at the highest threshold:
\* its text lines were dropped and its marker was appended
C27_Witness ==
    /\ pipe.stage = "done"
    /\ pipe.n = 2
    /\ pipe.flags.wordCountThreshold = ThresholdMax
    /\ pipe.located # <<>>
    /\ Len(pipe.out) = 2
    /\ Len(pipe.out[1]) > 0

(* --------------------------------------------------------------------- *)
\* C28: on the step that settles the promise of an invocation, and on the
\* close of its process, no file is left at the path of its script,
\* whichever way the process ended or failed to start; a settled
\* invocation never finds its own script on disk afterwards; and the
\* outcome is decided by the way the process ended alone, whether or not
\* the unlink found a file.
C28_ScriptReleased ==
    /\ [][ \A i \in Invocations :
             (inv'[i].pc # inv[i].pc /\ inv'[i].pc \in {"failed", "closed"}) =>
                 /\ files'[inv[i].path] = NoFile
                 /\ inv'[i].outcome = Settled(inv'[i].exit) ]_vars
    /\ [](\A i \in Invocations :
             inv[i].pc \in {"failed", "closed"} =>
                 /\ files[inv[i].path] # Script(i)
                 /\ inv[i].outcome = Settled(inv[i].exit)
                 /\ inv[i].exit \in Exits \cup {"spawn error"})

\* an invocation resolved although its unlink found no file: the other
\* invocation had written to the same path and removed it
C28_Witness ==
    \E i \in Invocations :
        /\ inv[i].pc = "closed"
        /\ inv[i].exit = "code0"
        /\ inv[i].outcome = "resolved"
        /\ ~inv[i].unlinked

\* every way of ending has been taken by a closed invocation
C28_WitnessPaths ==
    /\ inv[1].pc = "closed" /\ inv[1].exit = "spawn error" /\ inv[1].outcome = "rejected"
    /\ inv[2].pc = "closed" /\ inv[2].exit = "timeout" /\ inv[2].unlinked

(* --------------------------------------------------------------------- *)
\* C29: once the traversal loop has been entered, it reaches its top with
\* an empty frontier or with pages_crawled equal to max_pages.
C29_LoopTerminates ==
    (pc = "loop") ~>
        (pc = "loop" /\ (urls_to_visit = <<>> \/ pages_crawled = Config.max_pages))

\* the loop ended on an empty frontier below the page budget, after a
\* failed fetch and on a site whose pages link back to the seed
C29_Witness ==
    /\ pc = "loop"
    /\ urls_to_visit = <<>>
    /\ pages_crawled < Config.max_pages
    /\ pages_crawled >= 2
    /\ \E i \in DOMAIN fetchLog : ~fetchLog[i].ok

\* the loop ended on the page budget with URLs left in the frontier
C29_WitnessBudget ==
    /\ pc = "loop"
    /\ urls_to_visit # <<>>
    /\ pages_crawled = Config.max_pages

C31_WitnessTraversal ==
    /\ strategy1 \in {"raised", "unsuccessful"}
    /\ MarkerOrdinals(all_content) # <<>>

(* --------------------------------------------------------------------- *)
\* C32: two runs on the same site with the same seed, traversal settings
\* and fetch outcomes attempt the same fetches in the same order, keep the
\* same frontier and visited set and count the same pages, whatever the
\* content flags and the word count threshold of the second run are.
C32_FetchesIgnoreContentFlags ==
    /\ twin.run[1].fetched = twin.run[2].fetched
    /\ twin.run[1].frontier = twin.run[2].frontier
    /\ twin.run[1].visited = twin.run[2].visited
    /\ twin.run[1].pages = twin.run[2].pages

\* two runs fetched a page linked from the navigation bar only, one of
\* them without main-content narrowing and with links removed from its
\* markdown, and their contents differ
C32_Witness ==
    /\ twin.pc = "returned"
    /\ twin.flags[2].removeLinks
    /\ ~twin.flags[2].onlyMainContent
    /\ Len(twin.run[1].fetched) >= 3
    /\ \E k \in DOMAIN twin.run[1].fetched : twin.run[1].fetched[k] = Url(WWW, <<"n">>)
    /\ twin.run[1].content # twin.run[2].content

(* --------------------------------------------------------------------- *)
\* the stripped markdown of a page under given flags
PageMarkdown(doc, flags) ==
    Trim(ContentFilter(
             Html2Text(Sanitizer(ContentLocator(doc, flags), flags), flags),
             OrDefault(flags.wordCountThreshold, 1)))

\* a markdown shows an image
HasImage(md) == \E k \in DOMAIN md : md[k] = "![]("

\* the page of the pipeline has an image outside the elements the
\* sanitizer removes for another reason
ImageInContent == Images(SanitizeStructure(pipe.located, pipe.flags), 1) > 0

\* the markdown the page gives with extractImages set the other way
OtherExtractImages ==
    PageMarkdown(pipe.doc, [pipe.flags EXCEPT !.extractImages = ~@])

C33_WitnessShown ==
    /\ pipe.stage = "done"
    /\ ~pipe.flags.removeImages
    /\ ~pipe.flags.extractImages
    /\ HasImage(pipe.out[Len(pipe.out)])

(* --------------------------------------------------------------------- *)
\* C34: between the iterations of the loop pages_crawled is the number of
\* visited URLs and the number of page entries of all_content, and every
\* marker of ordinal k is directly preceded by the entry of page k - 1,
\* also when the processing of a fetched page raised.
C34_CountsAgree ==
    (StaticRan /\ pc = "loop") =>
        /\ pages_crawled = Cardinality(visited_urls)
        /\ pages_crawled = Len(PageEntries(all_content))
        /\ \A i \in DOMAIN all_content :
              IsMarker(all_content[i]) =>
                  /\ i > 1
                  /\ IsPage(all_content[i - 1])
                  /\ all_content[i - 1].n = all_content[i].n - 1

====
